---- MODULE Spec2Model ----
(***************************************************************************)
(* Model of the KDPAutomation core:                                        *)
(*   - the batch executor (utils/batch_processor.py, BatchProcessor);      *)
(*   - the retrying click of the mouse controller                          *)
(*     (core/mouse_controller.py, click_with_retry);                       *)
(*   - the geometry of utils/coordinate_helper.py: sampling a point in a   *)
(*     region, clamping, and the natural path between two points;          *)
(*   - the click delay of utils/random_helper.py, its fatigue and          *)
(*     attention and its typing-mistake decision;                          *)
(*   - the safety margins of utils/coordinate_helper.py and click_in_area; *)
(*   - the action-sequence interpreters of bookbold_controller_clean.py,   *)
(*     bookbold_controller.py and keywords_search.py;                      *)
(*   - the public operations of the mouse controller                       *)
(*     (core/mouse_controller.py, MouseController).                        *)
(*                                                                         *)
(* A handler is cut into steps only where it calls out to a collaborator   *)
(* and blocks: the unit callable, the operator's input(), time.sleep, the  *)
(* input backend.  Everything the code does between two such calls is one  *)
(* step.  The pure functions are operators, applied once to arguments the  *)
(* initial state draws.                                                    *)
(***************************************************************************)
EXTENDS Integers, Sequences, FiniteSets, TLC

VARIABLES
    \* ---- UserConfigManager fields read and written by BatchProcessor
    start_number,             \* config.start_number
    total_notebooks,          \* config.total_notebooks
    current_notebook_number,  \* config.current_notebook_number
    \* ---- BatchProcessor fields
    successful_notebooks,
    failed_notebooks,
    execution_start_time,     \* NoTime, or the reading of the clock
    execution_end_time,       \* NoTime, or the reading of the clock
    \* ---- position inside execute_batch_processing
    run,                      \* calls of execute_batch_processing so far; the
                              \* clock reads `run` during the run-th call
    i,                        \* loop index of `for i in range(total_notebooks)`
    bpc,                      \* "idle", "unit", "ask", "pause", "done", "aborted"
    batch_result,             \* "None" until the call returns, then "True"/"False"
    \* ---- what the collaborators observed during the current call
    attempted,                \* current_notebook_number at each unit invocation
    results,                  \* what each unit invocation came back with
    asked,                    \* the loop index i at each input() call
    declined,                 \* the operator answered something other than y/yes
    raised,                   \* an exception reached the handler of line 88
    pauses,                   \* <<i, current_notebook_number>> at each sleep
    printed,                  \* the summaries print_batch_summary produced
    \* ---- click_with_retry
    max_retries,              \* the argument
    attempt,                  \* loop index of `for attempt in range(max_retries)`
    rpc,                      \* "idle", "click", "sleep", "returned"
    retry_result,             \* "None" until the call returns, then "True"/"False"
    outcomes,                 \* outcome of each click_in_area call, in order
    sleeps,                   \* the retry delays slept, in tenths of a second
    \* ---- CoordinateHelper: the plane, sampling a point in a region
    screen_width,             \* set at construction (_detect_screen_size)
    screen_height,
    x_range,                  \* the caller's (min_x, max_x), in either order
    y_range,                  \* the caller's (min_y, max_y), in either order
    sampled,                  \* << >>, or <<p>> for the point last returned
    sampled_by,               \* "none", "area" or "rectangle": the method called
    \* ---- RandomHelper: the behaviour profile, the session, get_click_delay
    activity_level,           \* behavior_profile.activity_level
    fatigue_factor,           \* behavior_profile.fatigue_factor, in hundredths
    consistency,              \* behavior_profile.consistency, in hundredths
    attention_span,           \* behavior_profile.attention_span, in hundredths
    session_half_hours,       \* now - session_start, in half hours
    min_delay,                \* the arguments of get_click_delay, in
    max_delay,                \*   hundredths of a second
    delay,                    \* << >>, or <<d>> for the delay last returned
    \* ---- CoordinateHelper: generate_natural_path
    path_start,               \* the arguments start, end, human_like
    path_end,
    human_like,
    path,                     \* the list returned, << >> before the call
    path_returned,            \* generate_natural_path has returned
    \* ---- MouseController: MouseState
    current_position,         \* state.current_position
    total_clicks,             \* state.total_clicks
    total_moves,              \* state.total_moves
    is_dragging,              \* state.is_dragging
    last_click_time,          \* state.last_click_time and state.last_move_time:
    last_move_time,           \*   0.0, or the clock reading at the last one
    \* ---- MouseController: the public operation in progress
    op,                       \* "none", or the operation last called: "click",
                              \* "double", "retry", "move", "hover", "away",
                              \* "drag", "scroll", "nscroll"
    cpc,                      \* "idle", or the step the operation is at
    requested,                \* the point the caller asked for
    target,                   \* target_point of the operation
    drag_end,                 \* end_point of drag_to_coordinates
    click_success,            \* what _execute_click returned
    tries_left,               \* attempts click_with_retry still has
    scroll_remaining,         \* `remaining` of natural_scroll_pattern
    scroll_total,             \* total_amount of natural_scroll_pattern
    scrolled,                 \* the scroll_amount of each chunk handed to
                              \*   _execute_scroll, in order
    op_result,                \* "None" while running, then "True", "False",
                              \* or "Raised" if an exception left the operation
    trace,                    \* what the private methods did in this call
    ops_done,                 \* public operations returned so far
    \* ---- RandomHelper: fatigue, attention and the typing-mistake decision
    typing_style,             \* behavior_profile.typing_style
    mistake_proneness,        \* behavior_profile.mistake_proneness, hundredths
    fatigue_seen,             \* the last two values get_current_fatigue
                              \*   returned, oldest first
    attention_seen,           \* the last two values get_attention_level
                              \*   returned, oldest first
    \* << >>, or <<r>> for the last call of should_make_typing_mistake: its
    \* argument, the value random.random() drew and the result
    mistake,
    \* ---- CoordinateHelper / MouseController: safety margins
    safe_margin,              \* the safety_margin / safe_margin argument
    safe_area,                \* << >>, or <<rect>> that get_safe_click_area
                              \*   returned for the region
    adjusted,                 \* << >>, or the <<x range, y range>> that
                              \*   click_in_area sampled its target from
    area_target,              \* << >>, or <<p>>: target_point of click_in_area
    \* ---- the action-sequence interpreters (execute_single_sequence of the
    \* ---- two BookBolt controllers, execute_action_sequence of the keyword
    \* ---- search)
    interpreter,              \* "clean", "bookbold" or "keywords"
    known,                    \* sequence_name is a key of the sequence table
    actions,                  \* sequence['actions']: for each action the wait
                              \*   keys it has: "none", "range" (wait_min and
                              \*   wait_max) or "old" (wait)
    spc,                      \* "idle", "action", "wait" or "done"
    step,                     \* i + 1 of the loop: the action in hand
    executed,                 \* the steps execute_single_action was called
                              \*   for, in call order
    action_results,           \* what those calls returned
    waits,                    \* the steps a post-action wait was slept after
    sequence_result           \* "None" while running, then "True" or "False"

configVars == <<start_number, total_notebooks>>

batchVars == <<configVars, current_notebook_number,
               successful_notebooks, failed_notebooks, execution_start_time,
               execution_end_time, run, i, bpc, batch_result, attempted, results,
               asked, declined, raised, pauses, printed>>

retryVars == <<max_retries, attempt, rpc, retry_result, outcomes, sleeps>>

geoVars == <<screen_width, screen_height, x_range, y_range, sampled,
             sampled_by>>

delayVars == <<activity_level, fatigue_factor, consistency, attention_span,
               session_half_hours, min_delay, max_delay, delay>>

pathVars == <<path_start, path_end, human_like, path, path_returned>>

mouseVars == <<current_position, total_clicks, total_moves, is_dragging,
               last_click_time, last_move_time, op, cpc, requested, target,
               drag_end, click_success, tries_left, scroll_remaining,
               scroll_total, scrolled, op_result, trace, ops_done>>

sessionVars == <<typing_style, mistake_proneness, fatigue_seen,
                 attention_seen, mistake>>

marginVars == <<safe_margin, safe_area, adjusted, area_target>>

sequenceVars == <<interpreter, known, actions, spc, step, executed,
                  action_results, waits, sequence_result>>

vars == <<batchVars, retryVars, geoVars, delayVars, pathVars, mouseVars,
          sessionVars, marginVars, sequenceVars>>

\* What the actions of each component leave alone.
batchFrame == <<retryVars, geoVars, delayVars, pathVars, mouseVars,
                sessionVars, marginVars, sequenceVars>>

retryFrame == <<batchVars, geoVars, delayVars, pathVars, mouseVars,
                sessionVars, marginVars, sequenceVars>>

geoFrame == <<batchVars, retryVars, delayVars, pathVars, mouseVars,
              sessionVars, marginVars, sequenceVars>>

delayFrame == <<batchVars, retryVars, geoVars, pathVars, mouseVars,
                sessionVars, marginVars, sequenceVars>>

pathFrame == <<batchVars, retryVars, geoVars, delayVars, mouseVars,
               sessionVars, marginVars, sequenceVars>>

mouseFrame == <<batchVars, retryVars, geoVars, delayVars, pathVars,
                sessionVars, marginVars, sequenceVars>>

sessionFrame == <<batchVars, retryVars, geoVars, delayVars, pathVars,
                  mouseVars, marginVars, sequenceVars>>

marginFrame == <<batchVars, retryVars, geoVars, delayVars, pathVars,
                 mouseVars, sessionVars, sequenceVars>>

sequenceFrame == <<batchVars, retryVars, geoVars, delayVars, pathVars,
                   mouseVars, sessionVars, marginVars>>

\* ------------------------------------------------------------------ bounds
MaxStart == 1
MaxTotal == 5
MaxRuns == 2
MaxRetries == 4
MaxHalfHours == 7
MaxOps == 1
MaxTries == 2
MaxHoverMoves == 1
MaxScroll == 6
ClickMargin == 5
MinDistance == 100
ScreenW == 12
ScreenH == 11
WideW == 240
WideH == 180
Beyond == 4
MaxMargin == 5
MaxActions == 3

\* ======================================================= BatchProcessor ===

\* None, for the two timestamps (readings of the clock are 1, 2, ...).
NoTime == 0

\* print_batch_summary / get_execution_stats: the configured and actual ends.
ExpectedEnd(start, total) == start + total - 1

\* The off-by-one slip: the number about to be processed taken as processed.
ActualEnd_NoMinusOne(current) == current

ActualEnd(current) == current - 1

\* success_rate, in tenths of a percent (the summary prints one decimal).
SuccessRate(succ, total) ==
    IF total > 0 THEN (succ * 1000) \div total ELSE 0

\* The summary print_batch_summary prints, from the fields it reads.
BatchSummary(start, total, current, succ, fail) ==
    LET expected_end == ExpectedEnd(start, total)
        actual_end   == ActualEnd(current)
    IN  [ successful   |-> succ,
          failed       |-> fail,
          success_rate |-> SuccessRate(succ, total),
          start        |-> start,
          expected_end |-> expected_end,
          actual_end   |-> actual_end,
          early        |-> actual_end < expected_end,
          remaining    |-> IF actual_end < expected_end
                           THEN expected_end - actual_end ELSE 0 ]

\* get_execution_stats on the current fields.
ExecutionStats ==
    [ successful_notebooks  |-> successful_notebooks,
      failed_notebooks      |-> failed_notebooks,
      total_configured      |-> total_notebooks,
      start_number          |-> start_number,
      end_number_configured |-> ExpectedEnd(start_number, total_notebooks),
      end_number_actual     |-> ActualEnd(current_notebook_number),
      success_rate          |-> SuccessRate(successful_notebooks, total_notebooks) ]

\* State after BatchProcessor.__init__ on a config that get_user_configuration
\* has filled in (start >= 0, total > 0, current = start); the specifications
\* choose start_number and total_notebooks.
BatchInit ==
    /\ current_notebook_number = start_number
    /\ successful_notebooks = 0
    /\ failed_notebooks = 0
    /\ execution_start_time = NoTime
    /\ execution_end_time = NoTime
    /\ run = 0
    /\ i = 0
    /\ bpc = "idle"
    /\ batch_result = "None"
    /\ attempted = << >>
    /\ results = << >>
    /\ asked = << >>
    /\ declined = FALSE
    /\ raised = FALSE
    /\ pauses = << >>
    /\ printed = << >>

RetryIdle ==
    /\ max_retries = 0
    /\ attempt = 0
    /\ rpc = "idle"
    /\ retry_result = "None"
    /\ outcomes = << >>
    /\ sleeps = << >>

\* The slip of returning the summary without stamping the end time.
EndOfLoop_NoEndTime(cur, succ, fail) ==
    /\ printed' = Append(printed,
                     BatchSummary(start_number, total_notebooks, cur, succ, fail))
    /\ batch_result' = IF fail = 0 THEN "True" ELSE "False"
    /\ bpc' = "done"
    /\ UNCHANGED <<i, attempted, pauses, execution_end_time>>

\* Lines 82-86: the loop is over (exhausted or broken out of).
\* cur, succ, fail are the field values the loop left behind.
EndOfLoop(cur, succ, fail) ==
    /\ execution_end_time' = run
    /\ printed' = Append(printed,
                     BatchSummary(start_number, total_notebooks, cur, succ, fail))
    /\ batch_result' = IF fail = 0 THEN "True" ELSE "False"
    /\ bpc' = "done"
    /\ UNCHANGED <<i, attempted, pauses>>

\* The slip of leaving current_notebook_number alone between iterations.
NextIteration_NoIncrement(succ, fail) ==
    /\ UNCHANGED current_notebook_number
    /\ IF i < total_notebooks - 1
       THEN /\ pauses' = Append(pauses, <<i, current_notebook_number>>)
            /\ bpc' = "pause"
            /\ UNCHANGED <<i, attempted, execution_end_time, printed, batch_result>>
       ELSE /\ execution_end_time' = run
            /\ printed' = Append(printed,
                   BatchSummary(start_number, total_notebooks,
                                current_notebook_number, succ, fail))
            /\ batch_result' = IF fail = 0 THEN "True" ELSE "False"
            /\ bpc' = "done"
            /\ UNCHANGED <<i, attempted, pauses>>

\* The slip of pausing after the last configured unit as well.
NextIteration_PauseAfterLast(succ, fail) ==
    /\ current_notebook_number' = current_notebook_number + 1
    /\ pauses' = Append(pauses, <<i, current_notebook_number + 1>>)
    /\ bpc' = "pause"
    /\ UNCHANGED <<i, attempted, execution_end_time, printed, batch_result>>

\* Lines 73-80 and the loop header: increment, then pause unless this was the
\* last configured unit, in which case the loop is exhausted.
NextIteration(succ, fail) ==
    /\ current_notebook_number' = current_notebook_number + 1
    /\ IF i < total_notebooks - 1
       THEN /\ pauses' = Append(pauses, <<i, current_notebook_number + 1>>)
            /\ bpc' = "pause"
            /\ UNCHANGED <<i, attempted, execution_end_time, printed, batch_result>>
       ELSE EndOfLoop(current_notebook_number + 1, succ, fail)

\* Lines 38-57, first iteration: record the start time, reset the counters,
\* then invoke the unit callable (total_notebooks > 0, so the loop body is
\* entered).  execution_end_time is not reset.
StartBatch ==
    /\ bpc \in {"idle", "done", "aborted"}
    /\ run < MaxRuns
    /\ run' = run + 1
    /\ execution_start_time' = run + 1
    /\ successful_notebooks' = 0
    /\ failed_notebooks' = 0
    /\ current_notebook_number' = start_number
    /\ i' = 0
    /\ attempted' = <<start_number>>
    /\ results' = << >>
    /\ asked' = << >>
    /\ declined' = FALSE
    /\ raised' = FALSE
    /\ pauses' = << >>
    /\ printed' = << >>
    /\ batch_result' = "None"
    /\ bpc' = "unit"
    /\ UNCHANGED <<configVars, execution_end_time>>
    /\ UNCHANGED batchFrame

\* Lines 59-61, 73-86: the unit callable returned True.
UnitSucceeds ==
    /\ bpc = "unit"
    /\ results' = Append(results, "ok")
    /\ successful_notebooks' = successful_notebooks + 1
    /\ NextIteration(successful_notebooks + 1, failed_notebooks)
    /\ UNCHANGED <<configVars, failed_notebooks, execution_start_time, run,
                   asked, declined, raised>>
    /\ UNCHANGED batchFrame

\* The slip of counting a failure and going on without asking the operator.
UnitFails_NoAsk ==
    /\ bpc = "unit"
    /\ results' = Append(results, "fail")
    /\ failed_notebooks' = failed_notebooks + 1
    /\ current_notebook_number' = current_notebook_number + 1
    /\ IF i < total_notebooks - 1
       THEN /\ pauses' = Append(pauses, <<i, current_notebook_number + 1>>)
            /\ bpc' = "pause"
            /\ UNCHANGED <<i, attempted, execution_end_time, printed, batch_result>>
       ELSE /\ execution_end_time' = run
            /\ printed' = Append(printed,
                   BatchSummary(start_number, total_notebooks,
                                current_notebook_number + 1,
                                successful_notebooks, failed_notebooks + 1))
            /\ batch_result' = "False"
            /\ bpc' = "done"
            /\ UNCHANGED <<i, attempted, pauses>>
    /\ UNCHANGED <<configVars, successful_notebooks, execution_start_time, run,
                   asked, declined, raised>>
    /\ UNCHANGED batchFrame

\* Lines 62-67: the unit callable returned False; count it and call input().
UnitFails ==
    /\ bpc = "unit"
    /\ results' = Append(results, "fail")
    /\ failed_notebooks' = failed_notebooks + 1
    /\ asked' = Append(asked, i)
    /\ bpc' = "ask"
    /\ UNCHANGED <<configVars, current_notebook_number, successful_notebooks,
                   execution_start_time, execution_end_time, run, i,
                   batch_result, attempted, declined, raised, pauses, printed>>
    /\ UNCHANGED batchFrame

\* Lines 88-90: an exception left the try block.
Abort ==
    /\ raised' = TRUE
    /\ batch_result' = "False"
    /\ bpc' = "aborted"
    /\ UNCHANGED <<configVars, current_notebook_number, successful_notebooks,
                   failed_notebooks, execution_start_time, execution_end_time,
                   run, i, attempted, asked, declined, pauses, printed>>
    /\ UNCHANGED batchFrame

\* Line 57 raising.
UnitRaises ==
    /\ bpc = "unit"
    /\ results' = Append(results, "raise")
    /\ Abort

\* Line 67 raising (input() at end of file).
DecisionRaises ==
    /\ bpc = "ask"
    /\ UNCHANGED results
    /\ Abort

\* The slip of giving up on the second failure although the answer was yes.
OperatorContinues_StopsOnSecondFailure ==
    /\ bpc = "ask"
    /\ IF failed_notebooks >= 2
       THEN /\ EndOfLoop(current_notebook_number, successful_notebooks,
                         failed_notebooks)
            /\ UNCHANGED current_notebook_number
       ELSE NextIteration(successful_notebooks, failed_notebooks)
    /\ UNCHANGED <<configVars, successful_notebooks, failed_notebooks,
                   execution_start_time, run, results, asked, declined, raised>>
    /\ UNCHANGED batchFrame

\* Lines 67-68, 73-86: the answer was y/yes.
OperatorContinues ==
    /\ bpc = "ask"
    /\ NextIteration(successful_notebooks, failed_notebooks)
    /\ UNCHANGED <<configVars, successful_notebooks, failed_notebooks,
                   execution_start_time, run, results, asked, declined, raised>>
    /\ UNCHANGED batchFrame

\* The slip of a missing break: the refusal is noted and the loop goes on.
OperatorDeclines_GoesOn ==
    /\ bpc = "ask"
    /\ declined' = TRUE
    /\ NextIteration(successful_notebooks, failed_notebooks)
    /\ UNCHANGED <<configVars, successful_notebooks, failed_notebooks,
                   execution_start_time, run, results, asked, raised>>
    /\ UNCHANGED batchFrame

\* Lines 68-71, 82-86: any other answer breaks out of the loop.
OperatorDeclines ==
    /\ bpc = "ask"
    /\ declined' = TRUE
    /\ EndOfLoop(current_notebook_number, successful_notebooks, failed_notebooks)
    /\ UNCHANGED <<configVars, current_notebook_number, successful_notebooks,
                   failed_notebooks, execution_start_time, run, results, asked,
                   raised>>
    /\ UNCHANGED batchFrame

\* Line 80 returns, loop header, lines 51-57: the next unit is invoked.
PauseEnds ==
    /\ bpc = "pause"
    /\ i' = i + 1
    /\ attempted' = Append(attempted, current_notebook_number)
    /\ bpc' = "unit"
    /\ UNCHANGED <<configVars, current_notebook_number, successful_notebooks,
                   failed_notebooks, execution_start_time, execution_end_time,
                   run, batch_result, results, asked, declined, raised, pauses,
                   printed>>
    /\ UNCHANGED batchFrame

BatchNext ==
    \/ StartBatch
    \/ UnitSucceeds
    \/ UnitFails
    \/ UnitRaises
    \/ OperatorContinues
    \/ OperatorDeclines
    \/ DecisionRaises
    \/ PauseEnds


\* ===================================== MouseController.click_with_retry ===

\* Line 562: retry_delay = 1.0 + (attempt * 0.5), in tenths of a second.
RetryDelay(a) == 10 + (a * 5)

\* Lines 554, 568-570: the loop header after iteration `attempt` fell through:
\* another click_in_area call, or the loop is exhausted and False is returned.
NextAttempt ==
    IF attempt + 1 < max_retries
    THEN /\ attempt' = attempt + 1
         /\ rpc' = "click"
         /\ UNCHANGED retry_result
    ELSE /\ rpc' = "returned"
         /\ retry_result' = "False"
         /\ UNCHANGED attempt

\* Lines 540-556: the call; with max_retries <= 0 the loop body never runs.
CallClickWithRetry ==
    /\ rpc = "idle"
    /\ \E n \in 0..MaxRetries :
         /\ max_retries' = n
         /\ attempt' = 0
         /\ IF n > 0
            THEN rpc' = "click" /\ UNCHANGED retry_result
            ELSE rpc' = "returned" /\ retry_result' = "False"
    /\ UNCHANGED <<outcomes, sleeps>>
    /\ UNCHANGED retryFrame

\* The slip of a missing return: a successful click is followed by the next
\* attempt.
ClickSucceeds_KeepsTrying ==
    /\ rpc = "click"
    /\ outcomes' = Append(outcomes, "ok")
    /\ NextAttempt
    /\ UNCHANGED <<max_retries, sleeps>>
    /\ UNCHANGED retryFrame

\* Lines 556-557: click_in_area returned True.
ClickSucceeds ==
    /\ rpc = "click"
    /\ outcomes' = Append(outcomes, "ok")
    /\ rpc' = "returned"
    /\ retry_result' = "True"
    /\ UNCHANGED <<max_retries, attempt, sleeps>>
    /\ UNCHANGED retryFrame

\* Lines 556-563: click_in_area returned False; warn and sleep retry_delay.
ClickFails ==
    /\ rpc = "click"
    /\ outcomes' = Append(outcomes, "fail")
    /\ sleeps' = Append(sleeps, RetryDelay(attempt))
    /\ rpc' = "sleep"
    /\ UNCHANGED <<max_retries, attempt, retry_result>>
    /\ UNCHANGED retryFrame

\* Lines 565-566: the attempt raised; it is logged and the loop goes on
\* without sleeping.
ClickRaises ==
    /\ rpc = "click"
    /\ outcomes' = Append(outcomes, "raise")
    /\ NextAttempt
    /\ UNCHANGED <<max_retries, sleeps>>
    /\ UNCHANGED retryFrame

\* Line 563 returns.
SleepEnds ==
    /\ rpc = "sleep"
    /\ NextAttempt
    /\ UNCHANGED <<max_retries, outcomes, sleeps>>
    /\ UNCHANGED retryFrame

RetryNext ==
    \/ CallClickWithRetry
    \/ ClickSucceeds
    \/ ClickFails
    \/ ClickRaises
    \/ SleepEnds


\* ====================================================== CoordinateHelper ===

Min(a, b) == IF a <= b THEN a ELSE b

Max(a, b) == IF a >= b THEN a ELSE b

\* Point(x, y); the coordinates of the model are integers already.
Point(x, y) == [x |-> x, y |-> y]

\* Rectangle(x1, y1, x2, y2): __post_init__ orders the corners.
Rectangle(x1, y1, x2, y2) ==
    [x1 |-> Min(x1, x2), y1 |-> Min(y1, y2), x2 |-> Max(x1, x2), y2 |-> Max(y1, y2)]

\* Rectangle.width, Rectangle.height, Rectangle.contains.
Width(rect) == rect.x2 - rect.x1

Height(rect) == rect.y2 - rect.y1

Contains(rect, p) ==
    /\ rect.x1 <= p.x /\ p.x <= rect.x2
    /\ rect.y1 <= p.y /\ p.y <= rect.y2

\* create_rectangle_from_ranges.
RectangleFromRanges(xr, yr) == Rectangle(xr[1], yr[1], xr[2], yr[2])

\* validate_coordinates / validate_point.
ValidateCoordinates(x, y, margin) ==
    /\ margin <= x /\ x <= screen_width - margin
    /\ margin <= y /\ y <= screen_height - margin

\* A point outside the plane left where it is.
ClampCoordinates_NoClamp(x, y, margin) == Point(x, y)

\* clamp_coordinates / clamp_point.
ClampCoordinates(x, y, margin) ==
    Point(Max(margin, Min(screen_width - margin, x)),
          Max(margin, Min(screen_height - margin, y)))

\* get_random_point_in_range drawing one below the lower end.
RandomPointInRange_OpenStart(r) ==
    LET lo == IF r[1] > r[2] THEN r[2] ELSE r[1]
        hi == IF r[1] > r[2] THEN r[1] ELSE r[2]
    IN  (lo - 1)..hi

\* get_random_point_in_range drawing one beyond the upper end.
RandomPointInRange_OpenEnd(r) ==
    LET lo == IF r[1] > r[2] THEN r[2] ELSE r[1]
        hi == IF r[1] > r[2] THEN r[1] ELSE r[2]
    IN  lo..(hi + 1)

\* get_random_point_in_range: the values random.randint(min_val, max_val) can
\* return after the swap of a reversed range.
RandomPointInRange(r) ==
    LET lo == IF r[1] > r[2] THEN r[2] ELSE r[1]
        hi == IF r[1] > r[2] THEN r[1] ELSE r[2]
    IN  lo..hi

\* get_random_point_in_area: independent draws on the two axes, no clamping.
RandomPointInArea(xr, yr) ==
    {Point(x, y) : x \in RandomPointInRange(xr), y \in RandomPointInRange(yr)}

\* get_random_point_in_rectangle.
RandomPointInRectangle(rect) ==
    RandomPointInArea(<<rect.x1, rect.x2>>, <<rect.y1, rect.y2>>)

\* The corner coordinates callers pass: inside the plane, on its edge, beyond.
XCoords == {0, 3, ScreenW, ScreenW + Beyond}

YCoords == {0, 2, ScreenH, ScreenH + Beyond}

\* The plane pyautogui.size() reported at construction, kept small here.
SmallScreen ==
    /\ screen_width = ScreenW
    /\ screen_height = ScreenH

\* No call made yet; the specifications choose the caller's region.
GeoInit ==
    /\ sampled = << >>
    /\ sampled_by = "none"

GeoIdle ==
    /\ x_range = <<0, 0>>
    /\ y_range = <<0, 0>>
    /\ GeoInit

\* A caller calls get_random_point_in_area(x_range, y_range).
GetRandomPointInArea ==
    /\ sampled_by = "none"
    /\ \E p \in RandomPointInArea(x_range, y_range) : sampled' = <<p>>
    /\ sampled_by' = "area"
    /\ UNCHANGED <<screen_width, screen_height, x_range, y_range>>
    /\ UNCHANGED geoFrame

\* A caller builds Rectangle(x1, y1, x2, y2) and calls
\* get_random_point_in_rectangle on it.
GetRandomPointInRectangle ==
    /\ sampled_by = "none"
    /\ \E p \in RandomPointInRectangle(RectangleFromRanges(x_range, y_range)) :
         sampled' = <<p>>
    /\ sampled_by' = "rectangle"
    /\ UNCHANGED <<screen_width, screen_height, x_range, y_range>>
    /\ UNCHANGED geoFrame

GeoNext ==
    \/ GetRandomPointInArea
    \/ GetRandomPointInRectangle

\* ========================================================== RandomHelper ===
\* Probabilities and fatigue are in hundredths (70 is 0.7), delays in
\* hundredths of a second, the session's age in half hours.

\* ActivityLevel and the range _get_activity_multiplier draws from, in
\* hundredths.
ActivityLevels == {"tired", "normal", "energetic", "focused", "distracted"}

ActivityRange(level) ==
    CASE level = "tired"      -> <<130, 180>>
      [] level = "normal"     -> <<90, 110>>
      [] level = "energetic"  -> <<60, 90>>
      [] level = "focused"    -> <<80, 100>>
      [] level = "distracted" -> <<110, 160>>

\* The values of random.uniform(a, b) the model draws: both ends and the
\* middle.
Uniform(a, b) == {a, (a + b) \div 2, b}

\* get_current_fatigue: fatigue_factor plus a tenth per hour, the time part
\* capped at 0.3 and the sum at 1.0.
\* The time part starting again from 0 when it reaches the cap.
TimeFatigue_Sawtooth == (session_half_hours * 5) % 30

TimeFatigue == Min(30, session_half_hours * 5)

CurrentFatigue == Min(100, fatigue_factor + TimeFatigue)

\* The attention without its floor.
AttentionLevel_NoFloor == attention_span * (200 - CurrentFatigue)

\* get_attention_level: attention_span * (1 - fatigue * 0.5), floor 0.1; in
\* twenty-thousandths (attention_span in hundredths times 200 - fatigue) so
\* that the product stays whole.
AttentionLevel == Max(10 * 200, attention_span * (200 - CurrentFatigue))

\* A delay is kept as a whole number of 1/DelayScale hundredths of a second:
\* base (hundredths) * variation (tenths) * activity multiplier (hundredths)
\* * fatigue multiplier (two-hundredths).
DelayScale == 10 * 100 * 200

\* fatigue_multiplier = 1 + fatigue * 0.5, in two-hundredths.
FatigueMultiplier == 200 + CurrentFatigue

\* The last line of get_click_delay without the cap at twice max_delay.
ClampDelay_NoCap(lo, hi, final) == Max(lo * DelayScale, final)

\* max(min_delay, min(max_delay * 2, final_delay))
ClampDelay(lo, hi, final) ==
    Max(lo * DelayScale, Min(hi * 2 * DelayScale, final))

\* The delay bounds callers pass (settings: 0.1 and 0.5) with 0 <= min <= max.
DelayValues == {0, 10, 50}

\* The draws of random.random() compared with consistency.
RandomDraws == {0, 50, 99}

\* A fresh RandomHelper: session_start is now, nothing computed yet.
DelayInit ==
    /\ session_half_hours = 0
    /\ delay = << >>

DelayIdle ==
    /\ activity_level = "normal"
    /\ fatigue_factor = 0
    /\ consistency = 70
    /\ attention_span = 80
    /\ min_delay = 0
    /\ max_delay = 0
    /\ DelayInit

\* The wall clock moves on between two calls.
TimePasses ==
    /\ session_half_hours < MaxHalfHours
    /\ session_half_hours' = session_half_hours + 1
    /\ UNCHANGED <<activity_level, fatigue_factor, consistency, attention_span,
                   min_delay, max_delay, delay>>
    /\ UNCHANGED delayFrame

\* get_click_delay(min_delay, max_delay, contextual=False): the base delay.
GetClickDelayPlain ==
    /\ \E base \in Uniform(min_delay, max_delay) :
         delay' = <<base * DelayScale>>
    /\ UNCHANGED <<activity_level, fatigue_factor, consistency, attention_span,
                   session_half_hours, min_delay, max_delay>>
    /\ UNCHANGED delayFrame

\* get_click_delay(min_delay, max_delay): base delay, activity multiplier,
\* fatigue multiplier, the variation of an inconsistent profile, then the
\* clamp.
GetClickDelay ==
    /\ \E base \in Uniform(min_delay, max_delay),
          activity_multiplier \in Uniform(ActivityRange(activity_level)[1],
                                          ActivityRange(activity_level)[2]),
          r \in RandomDraws,
          variation \in Uniform(5, 15) :
         LET varied == IF consistency < r THEN base * variation ELSE base * 10
             final_delay == varied * activity_multiplier * FatigueMultiplier
         IN  delay' = <<ClampDelay(min_delay, max_delay, final_delay)>>
    /\ UNCHANGED <<activity_level, fatigue_factor, consistency, attention_span,
                   session_half_hours, min_delay, max_delay>>
    /\ UNCHANGED delayFrame

DelayNext ==
    \/ TimePasses
    \/ GetClickDelayPlain
    \/ GetClickDelay

\* ================================ CoordinateHelper.generate_natural_path ===

\* A plane wide enough for the three curve intensities (distances under 50,
\* under 200, and beyond).
WideScreen ==
    /\ screen_width = WideW
    /\ screen_height = WideH

\* int(): truncation toward zero of the quotient a / b, b > 0.
Trunc(a, b) == IF a >= 0 THEN a \div b ELSE -((-a) \div b)

\* int(math.sqrt(num) / den) for den * den = den2: the largest k with
\* den2 * k * k <= num.
RECURSIVE RootFrom(_, _, _)
RootFrom(k, num, den2) ==
    IF den2 * (k + 1) * (k + 1) > num THEN k ELSE RootFrom(k + 1, num, den2)

FloorRoot(num, den2) == RootFrom(0, num, den2)

\* Point.distance_to, squared.
Distance2(a, b) == (a.x - b.x) * (a.x - b.x) + (a.y - b.y) * (a.y - b.y)

\* steps = int(distance / 15), without the floor of 5.
Steps_NoFloor(start, end) == FloorRoot(Distance2(start, end), 15 * 15)

\* steps = max(5, int(distance / 15))
Steps(start, end) == Max(5, FloorRoot(Distance2(start, end), 15 * 15))

\* curve_intensity, in tenths: 0.1 under 50 px, 0.2 under 200 px, else 0.3.
CurveIntensity(start, end) ==
    IF Distance2(start, end) < 50 * 50 THEN 1
    ELSE IF Distance2(start, end) < 200 * 200 THEN 2
    ELSE 3

\* offset_range = int(distance * curve_intensity * 0.5)
OffsetRange(start, end, curve) ==
    FloorRoot(curve * curve * Distance2(start, end), 20 * 20)

\* The draws of random.randint(-offset_range, offset_range) the model makes:
\* both ends and the middle; 0 alone when offset_range is 0.
ControlOffsets(offset_range) == {-offset_range, 0, offset_range}

\* One coordinate of the quadratic Bezier curve at t = j / n, before int():
\* ((1-t)^2 p0 + 2(1-t)t p1 + t^2 p2), as a numerator over n * n.
BezierNum(j, n, p0, p1, p2) ==
    ((n - j) * (n - j) * p0) + (2 * (n - j) * j * p1) + (j * j * p2)

\* generate_smooth_path(start, end, steps, curve_intensity) with the control
\* offsets drawn.
SmoothPath(start, end, steps, cox, coy) ==
    IF steps <= 2
    THEN <<start, end>>
    ELSE LET n == steps - 1
             cx == ((start.x + end.x) \div 2) + cox
             cy == ((start.y + end.y) \div 2) + coy
         IN  [k \in 1..steps |->
                ClampCoordinates(
                    Trunc(BezierNum(k - 1, n, start.x, cx, end.x), n * n),
                    Trunc(BezierNum(k - 1, n, start.y, cy, end.y), n * n),
                    0)]

\* The number of points generate_smooth_path returns for `steps`.
PathLen(steps) == IF steps <= 2 THEN 2 ELSE steps

\* int(random.gauss(0, max_offset / 3)) without the clamp to max_offset.
GaussOffsets_Unclamped(max_offset) == (-(max_offset + 1))..(max_offset + 1)

\* offset_coordinates, gaussian: int(random.gauss(0, max_offset / 3)) clamped
\* to [-max_offset, max_offset] can be any whole number of that interval.
GaussOffsets(max_offset) == (-max_offset)..max_offset

\* offset_coordinates: the offset point, clamped to the plane.
OffsetCoordinates(p, ox, oy) == ClampCoordinates(p.x + ox, p.y + oy, 0)

\* The offsets drawn for the points of a path of generate_natural_path: the
\* first and the last point each take every pair of offsets, the points
\* between them share one pair.
EndJitter(on) ==
    IF on THEN GaussOffsets(2) \X GaussOffsets(2) ELSE {<<0, 0>>}

InnerJitter(on) ==
    IF on THEN {<<-2, -2>>, <<2, 2>>} ELSE {<<0, 0>>}

\* The start and end points callers pass: two corners of the plane and two
\* points inside it, at distances under 50, under 200 and beyond.
PathPoints ==
    {Point(0, 0), Point(30, 20), Point(150, 100), Point(WideW, WideH)}

PathInit ==
    /\ path = << >>
    /\ path_returned = FALSE

PathIdle ==
    /\ path_start = Point(0, 0)
    /\ path_end = Point(0, 0)
    /\ human_like = TRUE
    /\ PathInit

\* generate_natural_path(start, end, human_like) with its draws made: the
\* control offsets, and the jitter of the first point, of the points between
\* and of the last point.
NaturalPath(start, end, on, cox, coy, first, inner, last) ==
    LET steps == Steps(start, end)
        base == SmoothPath(start, end, steps, cox, coy)
        off(k) == IF k = 1 THEN first
                  ELSE IF k = PathLen(steps) THEN last
                  ELSE inner
        varied == [k \in 1..PathLen(steps) |->
                     OffsetCoordinates(base[k], off(k)[1], off(k)[2])]
    IN  IF on THEN varied ELSE base

\* The control offsets generate_natural_path can draw between two points.
ControlDraws(start, end) ==
    ControlOffsets(OffsetRange(start, end, CurveIntensity(start, end)))

\* generate_natural_path(start, end, human_like)
GenerateNaturalPath ==
    /\ ~path_returned
    /\ \E cox \in ControlDraws(path_start, path_end),
          coy \in ControlDraws(path_start, path_end),
          first \in EndJitter(human_like),
          inner \in InnerJitter(human_like),
          last \in EndJitter(human_like) :
         path' = NaturalPath(path_start, path_end, human_like, cox, coy,
                             first, inner, last)
    /\ path_returned' = TRUE
    /\ UNCHANGED <<path_start, path_end, human_like>>
    /\ UNCHANGED pathFrame

PathNext == GenerateNaturalPath

\* ======================================================= MouseController ===
\* A public operation is cut into steps at the calls of the input backend
\* (pyautogui) and at time.sleep; a call of the backend either returns or
\* raises.  pyautogui.position() reports the position the controller moved
\* the pointer to last.

\* settings.automation.anti_detection
AntiDetection == TRUE

\* No method has an exception handler.
TryExcept_None == {}

\* The methods whose body is a try ... except Exception.
TryExcept ==
    {"click_at_coordinates", "click_in_area", "double_click_at_coordinates",
     "move_to_coordinates", "hover_over_area", "move_away_from_area",
     "drag_to_coordinates", "scroll_vertical", "natural_scroll_pattern",
     "click_with_retry", "get_current_position", "_move_naturally_to_target",
     "_move_directly_to_target", "_execute_click", "_execute_drag",
     "_execute_scroll"}

\* An exception raised under the methods of `stack` reaches the caller of the
\* public operation: none of them catches it.
Escapes(stack) == stack \cap TryExcept = {}

\* The public methods on the call stack while operation o moves or clicks.
CallStack(o) ==
    CASE o = "click"  -> {"click_in_area", "click_at_coordinates"}
      [] o = "double" -> {"double_click_at_coordinates", "click_at_coordinates"}
      [] o = "retry"  -> {"click_with_retry", "click_in_area",
                          "click_at_coordinates"}
      [] o = "move"   -> {"move_to_coordinates"}
      [] o = "hover"  -> {"hover_over_area", "move_to_coordinates"}
      [] o = "away"   -> {"move_away_from_area", "move_to_coordinates"}
      [] o = "drag"   -> {"drag_to_coordinates", "move_to_coordinates"}

BoolStr(b) == IF b THEN "True" ELSE "False"

\* The points callers ask to click or move to: well inside the plane, within
\* the click margin of its edge, and beyond it.
Targets == {Point(60, 50), Point(3, 50), Point(WideW + Beyond, 50)}

\* The end points of a drag: inside the plane and beyond it.
DragEnds == {Point(100, 90), Point(WideW + Beyond, WideH + Beyond)}

\* The centres of the areas move_away_from_area is asked to avoid.
AvoidCenters == {Point(60, 50), Point(120, 90)}

\* The gaussian and uniform offsets of at most 2 px the controller's moves
\* draw, the same on both axes.
MoveJitter == {<<-2, -2>>, <<0, 0>>, <<2, 2>>}

\* The uniform offsets of at most 20 px of the post-click double check.
AwayOffsets == {<<-20, -20>>, <<20, 20>>}

\* The paths _move_naturally_to_target can get from generate_natural_path.
NaturalPaths(start, end) ==
    {NaturalPath(start, end, TRUE, c, c, j, j, j) :
        c \in ControlDraws(start, end), j \in MoveJitter}

\* _move_naturally_to_target(end) from `start`: every moveTo returns and the
\* pointer is at the last point of the path, or the k-th moveTo raises and the
\* recorded position is the point before it.
NaturalOutcomes(start, end) ==
    LET n == PathLen(Steps(start, end))
    IN  {[ok |-> TRUE, pos |-> p[n]] : p \in NaturalPaths(start, end)}
        \cup {[ok |-> FALSE, pos |-> start]}
        \cup {[ok |-> FALSE, pos |-> p[n - 1]] : p \in NaturalPaths(start, end)}

\* _move_directly_to_target(end) from `start`: moveTo returns or raises.
DirectOutcomes(start, end) ==
    {[ok |-> TRUE, pos |-> end], [ok |-> FALSE, pos |-> start]}

\* time.time() when a click or a move is recorded: the clock is read as the
\* number of clicks and moves recorded so far, this one included, so that a
\* later reading is larger.
Stamp(clicks, moves) == clicks + moves

\* MouseController.__init__: a fresh MouseState, the pointer at the centre.
MouseInit ==
    /\ current_position = Point(screen_width \div 2, screen_height \div 2)
    /\ total_clicks = 0
    /\ total_moves = 0
    /\ is_dragging = FALSE
    /\ last_click_time = 0
    /\ last_move_time = 0
    /\ op = "none"
    /\ cpc = "idle"
    /\ requested = Point(0, 0)
    /\ target = Point(0, 0)
    /\ drag_end = Point(0, 0)
    /\ click_success = FALSE
    /\ tries_left = 0
    /\ scroll_remaining = 0
    /\ scroll_total = 0
    /\ scrolled = << >>
    /\ op_result = "None"
    /\ trace = << >>
    /\ ops_done = 0

MouseIdle == MouseInit

\* The controller is between two public operations; the arguments and local
\* variables of an operation start afresh at its call.
CanCall == cpc = "idle" /\ ops_done < MaxOps

\* The operation returns `result` to its caller.
Finish(result) ==
    /\ cpc' = "idle"
    /\ op_result' = result
    /\ ops_done' = ops_done + 1

\* The operation goes on at step pc.
Continue(pc) ==
    /\ cpc' = pc
    /\ op_result' = "None"
    /\ UNCHANGED ops_done

\* click_at_coordinates returns ok inside operation o: click_in_area passes
\* the result on, double_click_at_coordinates goes on to its second click
\* after a success, click_with_retry returns after a success and sleeps after
\* a failure.
ClickReturns(o, ok) ==
    CASE o = "click"  -> Finish(BoolStr(ok))
      [] o = "double" -> IF ok THEN Continue("second_click")
                               ELSE Finish("False")
      [] o = "retry"  -> IF ok THEN Finish("True")
                               ELSE Continue("retry_sleep")

\* Lines 87-93: click_at_coordinates(p) inside operation o validates the
\* target with a margin of 5 px and returns False if that fails.
EnterClick(o, p) ==
    /\ requested' = p
    /\ target' = p
    /\ trace' = << >>
    /\ IF ValidateCoordinates(p.x, p.y, ClickMargin)
       THEN Continue("approach")
       ELSE ClickReturns(o, FALSE)

\* click_in_area: the point sampled in the caller's area is clicked.
ClickInArea ==
    /\ CanCall
    /\ op' = "click"
    /\ \E p \in Targets : EnterClick("click", p)
    /\ drag_end' = Point(0, 0)
    /\ click_success' = FALSE
    /\ tries_left' = 0
    /\ scroll_remaining' = 0
    /\ scroll_total' = 0
    /\ scrolled' = << >>
    /\ UNCHANGED <<current_position, total_clicks, last_click_time,
                   total_moves, last_move_time, is_dragging>>
    /\ UNCHANGED mouseFrame

\* double_click_at_coordinates: the first click.
DoubleClickAtCoordinates ==
    /\ CanCall
    /\ op' = "double"
    /\ \E p \in Targets : EnterClick("double", p)
    /\ drag_end' = Point(0, 0)
    /\ click_success' = FALSE
    /\ tries_left' = 0
    /\ scroll_remaining' = 0
    /\ scroll_total' = 0
    /\ scrolled' = << >>
    /\ UNCHANGED <<current_position, total_clicks, last_click_time,
                   total_moves, last_move_time, is_dragging>>
    /\ UNCHANGED mouseFrame

\* click_with_retry(max_retries = n): the first attempt, or False at once
\* when n is 0.
ClickWithRetry ==
    /\ CanCall
    /\ op' = "retry"
    /\ \E n \in 0..MaxTries :
         IF n = 0
         THEN /\ tries_left' = 0
              /\ trace' = << >>
              /\ Finish("False")
              /\ requested' = Point(0, 0)
              /\ target' = Point(0, 0)
         ELSE /\ tries_left' = n - 1
              /\ \E p \in Targets : EnterClick("retry", p)
    /\ drag_end' = Point(0, 0)
    /\ click_success' = FALSE
    /\ scroll_remaining' = 0
    /\ scroll_total' = 0
    /\ scrolled' = << >>
    /\ UNCHANGED <<current_position, total_clicks, last_click_time,
                   total_moves, last_move_time, is_dragging>>
    /\ UNCHANGED mouseFrame

\* click_with_retry: the sleep after a failed attempt ends; the next attempt
\* starts, or the loop is over and the result is False.
RetrySleepEnds ==
    /\ cpc = "retry_sleep"
    /\ IF tries_left > 0
       THEN /\ tries_left' = tries_left - 1
            /\ \E p \in Targets : EnterClick("retry", p)
       ELSE /\ Finish("False")
            /\ UNCHANGED <<tries_left, requested, target, trace>>
    /\ UNCHANGED <<current_position, total_clicks, last_click_time,
                   total_moves, last_move_time, is_dragging, op, drag_end,
                   click_success, scroll_remaining, scroll_total, scrolled>>
    /\ UNCHANGED mouseFrame

\* Lines 95-99: the natural approach; if it fails the fallback is next.
ApproachNaturally ==
    /\ cpc = "approach"
    /\ \E r \in NaturalOutcomes(current_position, target) :
         /\ current_position' = r.pos
         /\ total_moves' = IF r.ok THEN total_moves + 1 ELSE total_moves
         /\ last_move_time' = IF r.ok THEN Stamp(total_clicks, total_moves + 1)
                                         ELSE last_move_time
         /\ trace' = Append(trace, IF r.ok THEN "natural_ok" ELSE "natural_fail")
         /\ IF r.ok
            THEN Continue("preclick")
            ELSE IF Escapes(CallStack(op) \cup {"_move_naturally_to_target"})
                 THEN Finish("Raised")
                 ELSE Continue("fallback")
    /\ UNCHANGED <<total_clicks, last_click_time, is_dragging, op, requested,
                   target, drag_end, click_success, tries_left,
                   scroll_remaining, scroll_total, scrolled>>
    /\ UNCHANGED mouseFrame

\* A failed fallback move makes click_at_coordinates return False.
FallbackDirect_Fatal ==
    /\ cpc = "fallback"
    /\ \E r \in DirectOutcomes(current_position, target) :
         /\ current_position' = r.pos
         /\ total_moves' = IF r.ok THEN total_moves + 1 ELSE total_moves
         /\ last_move_time' = IF r.ok THEN Stamp(total_clicks, total_moves + 1)
                                         ELSE last_move_time
         /\ trace' = Append(trace, IF r.ok THEN "direct_ok" ELSE "direct_fail")
         /\ IF r.ok THEN Continue("preclick") ELSE ClickReturns(op, FALSE)
    /\ UNCHANGED <<total_clicks, last_click_time, is_dragging, op, requested,
                   target, drag_end, click_success, tries_left,
                   scroll_remaining, scroll_total, scrolled>>
    /\ UNCHANGED mouseFrame

\* Lines 97-99: the natural approach failed; one direct move is made and its
\* result is not looked at.
FallbackDirect ==
    /\ cpc = "fallback"
    /\ \E r \in DirectOutcomes(current_position, target) :
         /\ current_position' = r.pos
         /\ total_moves' = IF r.ok THEN total_moves + 1 ELSE total_moves
         /\ last_move_time' = IF r.ok THEN Stamp(total_clicks, total_moves + 1)
                                         ELSE last_move_time
         /\ trace' = Append(trace, IF r.ok THEN "direct_ok" ELSE "direct_fail")
         /\ IF ~r.ok /\ Escapes(CallStack(op) \cup {"_move_directly_to_target"})
            THEN Finish("Raised")
            ELSE Continue("preclick")
    /\ UNCHANGED <<total_clicks, last_click_time, is_dragging, op, requested,
                   target, drag_end, click_success, tries_left,
                   scroll_remaining, scroll_total, scrolled>>
    /\ UNCHANGED mouseFrame

\* _pre_click_behavior going straight on to post-click behaviour.
PreClick_SkipsClick ==
    /\ cpc = "preclick"
    /\ trace' = Append(trace, "preclick")
    /\ Continue("postclick")
    /\ UNCHANGED <<current_position, total_clicks, last_click_time,
                   total_moves, last_move_time, is_dragging, op, requested,
                   target, drag_end, click_success, tries_left,
                   scroll_remaining, scroll_total, scrolled>>
    /\ UNCHANGED mouseFrame

\* _pre_click_behavior (lines 642-666, no handler of its own): hesitation,
\* then with probability 0.3 a micro-adjustment moveTo, then the click delay.
\* If the moveTo raises, the exception leaves _pre_click_behavior and is
\* caught by click_at_coordinates (line 123), which returns False.
PreClick ==
    /\ cpc = "preclick"
    /\ \/ /\ trace' = Append(trace, "preclick")
          /\ Continue("execute")
          /\ UNCHANGED current_position
       \/ /\ AntiDetection
          /\ \E j \in MoveJitter :
               current_position' = OffsetCoordinates(target, j[1], j[2])
          /\ trace' = Append(trace, "preclick")
          /\ Continue("execute")
       \/ /\ AntiDetection
          /\ trace' = Append(trace, "preclick_raise")
          /\ IF Escapes(CallStack(op))
             THEN Finish("Raised")
             ELSE ClickReturns(op, FALSE)
          /\ UNCHANGED current_position
    /\ UNCHANGED <<total_clicks, last_click_time, total_moves, last_move_time,
                   is_dragging, op, requested, target, drag_end, click_success,
                   tries_left, scroll_remaining, scroll_total, scrolled>>
    /\ UNCHANGED mouseFrame

\* _execute_click: pyautogui.click returns (True) or raises (False).
ExecuteClick ==
    /\ cpc = "execute"
    /\ \E ok \in BOOLEAN :
         /\ click_success' = ok
         /\ trace' = Append(trace, IF ok THEN "click_ok" ELSE "click_fail")
         /\ IF ~ok /\ Escapes(CallStack(op) \cup {"_execute_click"})
            THEN Finish("Raised")
            ELSE Continue("postclick")
    /\ UNCHANGED <<current_position, total_clicks, last_click_time,
                   total_moves, last_move_time, is_dragging, op, requested,
                   target, drag_end, tries_left, scroll_remaining,
                   scroll_total, scrolled>>
    /\ UNCHANGED mouseFrame

\* The click returning without being counted.
PostClick_NoCount ==
    /\ cpc = "postclick"
    /\ \/ UNCHANGED <<current_position, total_moves, last_move_time>>
       \/ /\ click_success
          /\ AntiDetection
          /\ \E j \in AwayOffsets, away_ok \in BOOLEAN, back_ok \in BOOLEAN :
               LET away_point ==
                       OffsetCoordinates(current_position, j[1], j[2])
                   moves == total_moves + (IF away_ok THEN 1 ELSE 0)
                                        + (IF back_ok THEN 1 ELSE 0)
               IN  /\ current_position' =
                          IF back_ok \/ ~away_ok THEN current_position
                          ELSE away_point
                   /\ total_moves' = moves
                   /\ last_move_time' = IF away_ok \/ back_ok
                                        THEN Stamp(total_clicks, moves)
                                        ELSE last_move_time
    /\ UNCHANGED <<total_clicks, last_click_time>>
    /\ trace' = Append(trace, "postclick")
    /\ ClickReturns(op, click_success)
    /\ UNCHANGED <<is_dragging, op, requested, target, drag_end, click_success,
                   tries_left, scroll_remaining, scroll_total, scrolled>>
    /\ UNCHANGED mouseFrame

\* _post_click_behavior and lines 110-121: the post-click delay, after a
\* successful click possibly the double check (a direct move away and one
\* back, either of which may fail), then total_clicks += 1 and the result of
\* the click is returned.
PostClick ==
    /\ cpc = "postclick"
    /\ \/ UNCHANGED <<current_position, total_moves, last_move_time>>
       \/ /\ click_success
          /\ AntiDetection
          /\ \E j \in AwayOffsets, away_ok \in BOOLEAN, back_ok \in BOOLEAN :
               LET away_point ==
                       OffsetCoordinates(current_position, j[1], j[2])
                   moves == total_moves + (IF away_ok THEN 1 ELSE 0)
                                        + (IF back_ok THEN 1 ELSE 0)
               IN  /\ current_position' =
                          IF back_ok \/ ~away_ok THEN current_position
                          ELSE away_point
                   /\ total_moves' = moves
                   /\ last_move_time' = IF away_ok \/ back_ok
                                        THEN Stamp(total_clicks, moves)
                                        ELSE last_move_time
    /\ total_clicks' = total_clicks + 1
    /\ last_click_time' = Stamp(total_clicks + 1, total_moves')
    /\ trace' = Append(trace, "postclick")
    /\ ClickReturns(op, click_success)
    /\ UNCHANGED <<is_dragging, op, requested, target, drag_end, click_success,
                   tries_left, scroll_remaining, scroll_total, scrolled>>
    /\ UNCHANGED mouseFrame

\* double_click_at_coordinates, lines 174-182: after the interval the second
\* click is a bare _execute_click.
SecondClick ==
    /\ cpc = "second_click"
    /\ \E ok \in BOOLEAN :
         /\ trace' = Append(trace, IF ok THEN "click_ok" ELSE "click_fail")
         /\ IF ~ok /\ Escapes({"double_click_at_coordinates", "_execute_click"})
            THEN Finish("Raised")
            ELSE Finish(BoolStr(ok))
    /\ UNCHANGED <<current_position, total_clicks, last_click_time,
                   total_moves, last_move_time, is_dragging, op, requested,
                   target, drag_end, click_success, tries_left,
                   scroll_remaining, scroll_total, scrolled>>
    /\ UNCHANGED mouseFrame

\* Lines 219-224: move_to_coordinates(p) clamps a target outside the plane
\* and goes on.
EnterMove(p) ==
    /\ requested' = p
    /\ target' = IF ValidateCoordinates(p.x, p.y, 0)
                 THEN p
                 ELSE ClampCoordinates(p.x, p.y, 0)
    /\ trace' = << >>
    /\ Continue("moving")

\* move_to_coordinates returns ok inside operation o: hover_over_area starts
\* to hover after a success, drag_to_coordinates sets is_dragging and calls
\* the backend drag after a success, each returns False after a failure.
MoveReturns(o, ok) ==
    /\ is_dragging' = (o = "drag" /\ ok)
    /\ CASE o = "move"  -> Finish(BoolStr(ok))
         [] o = "away"  -> Finish(BoolStr(ok))
         [] o = "hover" -> IF ok THEN Continue("hovering") ELSE Finish("False")
         [] o = "drag"  -> IF ok THEN Continue("dragging") ELSE Finish("False")

MoveToCoordinates ==
    /\ CanCall
    /\ op' = "move"
    /\ \E p \in Targets : EnterMove(p)
    /\ drag_end' = Point(0, 0)
    /\ click_success' = FALSE
    /\ tries_left' = 0
    /\ scroll_remaining' = 0
    /\ scroll_total' = 0
    /\ scrolled' = << >>
    /\ UNCHANGED <<current_position, total_clicks, last_click_time,
                   total_moves, last_move_time, is_dragging>>
    /\ UNCHANGED mouseFrame

\* hover_over_area: the point sampled in the caller's area is moved to.
HoverOverArea ==
    /\ CanCall
    /\ op' = "hover"
    /\ \E p \in Targets : EnterMove(p)
    /\ drag_end' = Point(0, 0)
    /\ click_success' = FALSE
    /\ tries_left' = 0
    /\ scroll_remaining' = 0
    /\ scroll_total' = 0
    /\ scrolled' = << >>
    /\ UNCHANGED <<current_position, total_clicks, last_click_time,
                   total_moves, last_move_time, is_dragging>>
    /\ UNCHANGED mouseFrame

\* move_away_from_area: up to ten positions are drawn 50 px inside the plane
\* (random.randint raises ValueError on a plane narrower than 100 px, which
\* the handler turns into False); the first one at least min_distance from
\* the centre of the area is moved to, and if none is, the corner 100 px
\* inside the plane.
MoveAwayFromArea ==
    /\ CanCall
    /\ op' = "away"
    /\ IF screen_width - 50 < 50 \/ screen_height - 50 < 50
       THEN /\ trace' = << >>
            /\ IF Escapes({"move_away_from_area"})
               THEN Finish("Raised")
               ELSE Finish("False")
            /\ requested' = Point(0, 0)
            /\ target' = Point(0, 0)
       ELSE \E c \in AvoidCenters :
              LET draws == {Point(x, y) : x \in {50, screen_width - 50},
                                          y \in {50, screen_height - 50}}
                  far == {p \in draws :
                            Distance2(c, p) >= MinDistance * MinDistance}
                  corner == Point(screen_width - 100, screen_height - 100)
              IN  \E p \in far \cup (IF far # draws THEN {corner} ELSE {}) :
                    EnterMove(p)
    /\ drag_end' = Point(0, 0)
    /\ click_success' = FALSE
    /\ tries_left' = 0
    /\ scroll_remaining' = 0
    /\ scroll_total' = 0
    /\ scrolled' = << >>
    /\ UNCHANGED <<current_position, total_clicks, last_click_time,
                   total_moves, last_move_time, is_dragging>>
    /\ UNCHANGED mouseFrame

\* drag_to_coordinates: the move to the start point comes first.
DragToCoordinates ==
    /\ CanCall
    /\ op' = "drag"
    /\ \E s \in Targets : EnterMove(s)
    /\ \E e \in DragEnds : drag_end' = e
    /\ click_success' = FALSE
    /\ tries_left' = 0
    /\ scroll_remaining' = 0
    /\ scroll_total' = 0
    /\ scrolled' = << >>
    /\ UNCHANGED <<current_position, total_clicks, last_click_time,
                   total_moves, last_move_time, is_dragging>>
    /\ UNCHANGED mouseFrame

\* move_to_coordinates, natural: _move_naturally_to_target and its result.
MoveNaturally ==
    /\ cpc = "moving"
    /\ AntiDetection
    /\ \E r \in NaturalOutcomes(current_position, target) :
         /\ current_position' = r.pos
         /\ total_moves' = IF r.ok THEN total_moves + 1 ELSE total_moves
         /\ last_move_time' = IF r.ok THEN Stamp(total_clicks, total_moves + 1)
                                         ELSE last_move_time
         /\ trace' = Append(trace, IF r.ok THEN "natural_ok" ELSE "natural_fail")
         /\ IF ~r.ok /\ Escapes(CallStack(op) \cup {"_move_naturally_to_target"})
            THEN Finish("Raised") /\ UNCHANGED is_dragging
            ELSE MoveReturns(op, r.ok)
    /\ UNCHANGED <<total_clicks, last_click_time, op, requested, target,
                   drag_end, click_success, tries_left, scroll_remaining,
                   scroll_total, scrolled>>
    /\ UNCHANGED mouseFrame

\* move_to_coordinates(natural=False): _move_directly_to_target and its
\* result.
MoveDirectly ==
    /\ cpc = "moving"
    /\ op = "move"
    /\ \E r \in DirectOutcomes(current_position, target) :
         /\ current_position' = r.pos
         /\ total_moves' = IF r.ok THEN total_moves + 1 ELSE total_moves
         /\ last_move_time' = IF r.ok THEN Stamp(total_clicks, total_moves + 1)
                                         ELSE last_move_time
         /\ trace' = Append(trace, IF r.ok THEN "direct_ok" ELSE "direct_fail")
         /\ IF ~r.ok /\ Escapes(CallStack(op) \cup {"_move_directly_to_target"})
            THEN Finish("Raised") /\ UNCHANGED is_dragging
            ELSE MoveReturns(op, r.ok)
    /\ UNCHANGED <<total_clicks, last_click_time, op, requested, target,
                   drag_end, click_success, tries_left, scroll_remaining,
                   scroll_total, scrolled>>
    /\ UNCHANGED mouseFrame

\* hover_over_area, lines 260-268: one turn of the hover loop that makes the
\* micro-movement, a direct move to a point within 2 px of the sampled point;
\* its result is not looked at.
HoverMicroMove ==
    /\ cpc = "hovering"
    /\ Len(trace) <= MaxHoverMoves
    /\ \E j \in MoveJitter :
         \E r \in DirectOutcomes(current_position,
                                 OffsetCoordinates(requested, j[1], j[2])) :
           /\ current_position' = r.pos
           /\ total_moves' = IF r.ok THEN total_moves + 1 ELSE total_moves
           /\ last_move_time' = IF r.ok THEN Stamp(total_clicks, total_moves + 1)
                                           ELSE last_move_time
           /\ trace' = Append(trace, IF r.ok THEN "direct_ok" ELSE "direct_fail")
           /\ IF ~r.ok /\ Escapes({"hover_over_area", "_move_directly_to_target"})
              THEN Finish("Raised")
              ELSE Continue("hovering")
    /\ UNCHANGED <<total_clicks, last_click_time, is_dragging, op, requested,
                   target, drag_end, click_success, tries_left,
                   scroll_remaining, scroll_total, scrolled>>
    /\ UNCHANGED mouseFrame

\* hover_over_area, lines 258-271: the duration is over.
HoverEnds ==
    /\ cpc = "hovering"
    /\ Finish("True")
    /\ UNCHANGED <<current_position, total_clicks, last_click_time,
                   total_moves, last_move_time, is_dragging, op, requested,
                   target, drag_end, click_success, tries_left,
                   scroll_remaining, scroll_total, scrolled, trace>>
    /\ UNCHANGED mouseFrame

\* The backend drag failing with is_dragging left as it is.
DragBackendReturns_KeepsFlag ==
    /\ cpc = "dragging"
    /\ \E ok \in BOOLEAN :
         /\ current_position' = IF ok THEN drag_end ELSE current_position
         /\ trace' = Append(trace, IF ok THEN "drag_ok" ELSE "drag_fail")
         /\ is_dragging' = ~ok
         /\ Finish(BoolStr(ok))
    /\ UNCHANGED <<total_clicks, last_click_time, total_moves, last_move_time,
                   op, requested, target, drag_end, click_success, tries_left,
                   scroll_remaining, scroll_total, scrolled>>
    /\ UNCHANGED mouseFrame

\* drag_to_coordinates, lines 341-347, and _execute_drag: pyautogui.dragTo
\* returns, and the recorded position is the end point as given, or raises;
\* either way is_dragging is cleared and the result returned.
DragBackendReturns ==
    /\ cpc = "dragging"
    /\ \E ok \in BOOLEAN :
         /\ current_position' = IF ok THEN drag_end ELSE current_position
         /\ trace' = Append(trace, IF ok THEN "drag_ok" ELSE "drag_fail")
         /\ IF ~ok /\ Escapes({"drag_to_coordinates", "_execute_drag"})
            THEN Finish("Raised") /\ UNCHANGED is_dragging
            ELSE Finish(BoolStr(ok)) /\ is_dragging' = FALSE
    /\ UNCHANGED <<total_clicks, last_click_time, total_moves, last_move_time,
                   op, requested, target, drag_end, click_success, tries_left,
                   scroll_remaining, scroll_total, scrolled>>
    /\ UNCHANGED mouseFrame

\* scroll_vertical / scroll_horizontal at the current position:
\* _execute_scroll returns True, or False if the backend raises.
ScrollVertical ==
    /\ CanCall
    /\ op' = "scroll"
    /\ \E ok \in BOOLEAN :
         /\ trace' = <<IF ok THEN "scroll_ok" ELSE "scroll_fail">>
         /\ IF ~ok /\ Escapes({"scroll_vertical", "_execute_scroll"})
            THEN Finish("Raised")
            ELSE Finish(BoolStr(ok))
    /\ requested' = Point(0, 0)
    /\ target' = Point(0, 0)
    /\ drag_end' = Point(0, 0)
    /\ click_success' = FALSE
    /\ tries_left' = 0
    /\ scroll_remaining' = 0
    /\ scroll_total' = 0
    /\ scrolled' = << >>
    /\ UNCHANGED <<current_position, total_clicks, last_click_time,
                   total_moves, last_move_time, is_dragging>>
    /\ UNCHANGED mouseFrame

\* The values of random.randint(1, 5) the model draws: both ends and the
\* middle.
ChunkDraws == {1, 3, 5}

\* natural_scroll_pattern(total_amount): remaining = abs(total_amount); with
\* nothing to scroll it returns True at once.
NaturalScrollPattern ==
    /\ CanCall
    /\ op' = "nscroll"
    /\ trace' = << >>
    /\ \E total \in (-MaxScroll)..MaxScroll :
         /\ scroll_total' = total
         /\ scroll_remaining' = IF total < 0 THEN -total ELSE total
         /\ IF total = 0 THEN Finish("True") ELSE Continue("scrolling")
    /\ scrolled' = << >>
    /\ requested' = Point(0, 0)
    /\ target' = Point(0, 0)
    /\ drag_end' = Point(0, 0)
    /\ click_success' = FALSE
    /\ tries_left' = 0
    /\ UNCHANGED <<current_position, total_clicks, last_click_time,
                   total_moves, last_move_time, is_dragging>>
    /\ UNCHANGED mouseFrame

\* natural_scroll_pattern, lines 478-491: one chunk of 1 to 5 units is handed
\* to _execute_scroll with the sign of total_amount (its result is not looked
\* at); with nothing remaining the operation returns True, otherwise the
\* pause is slept and the loop goes on.
NaturalScrollChunk ==
    /\ cpc = "scrolling"
    /\ \E size \in ChunkDraws, ok \in BOOLEAN :
         LET chunk_size == Min(scroll_remaining, size)
             scroll_direction == IF scroll_total > 0 THEN 1 ELSE -1
             event == IF ok THEN "scroll_ok" ELSE "scroll_fail"
         IN  /\ scroll_remaining' = scroll_remaining - chunk_size
             /\ scrolled' = Append(scrolled, chunk_size * scroll_direction)
             /\ IF ~ok /\ Escapes({"natural_scroll_pattern", "_execute_scroll"})
                THEN /\ trace' = Append(trace, event)
                     /\ Finish("Raised")
                ELSE IF scroll_remaining - chunk_size = 0
                     THEN /\ trace' = Append(trace, event)
                          /\ Finish("True")
                     ELSE /\ trace' = Append(Append(trace, event), "scroll_pause")
                          /\ Continue("scrolling")
    /\ UNCHANGED <<current_position, total_clicks, last_click_time,
                   total_moves, last_move_time, is_dragging, op, requested,
                   target, drag_end, click_success, tries_left, scroll_total>>
    /\ UNCHANGED mouseFrame

MouseNext ==
    \/ ClickInArea
    \/ DoubleClickAtCoordinates
    \/ ClickWithRetry
    \/ RetrySleepEnds
    \/ ApproachNaturally
    \/ FallbackDirect
    \/ PreClick
    \/ ExecuteClick
    \/ PostClick
    \/ SecondClick
    \/ MoveToCoordinates
    \/ HoverOverArea
    \/ MoveAwayFromArea
    \/ DragToCoordinates
    \/ MoveNaturally
    \/ MoveDirectly
    \/ HoverMicroMove
    \/ HoverEnds
    \/ DragBackendReturns
    \/ ScrollVertical
    \/ NaturalScrollPattern
    \/ NaturalScrollChunk

\* ================================== RandomHelper: fatigue and decisions ===
\* get_current_fatigue and get_attention_level as callers see them over a
\* session, and should_make_typing_mistake.

TypingStyles ==
    {"hunt_and_peck", "touch_typing", "casual", "professional", "mobile"}

\* _get_typing_style_mistake_factor, in tenths.
TypingStyleMistakeFactor(style) ==
    CASE style = "hunt_and_peck" -> 20
      [] style = "touch_typing"  -> 3
      [] style = "casual"        -> 10
      [] style = "professional"  -> 2
      [] style = "mobile"        -> 15

\* The last two of the values seen so far.
LastTwo(seen, value) ==
    IF Len(seen) < 2 THEN Append(seen, value) ELSE <<seen[2], value>>

SessionIdle ==
    /\ typing_style = "casual"
    /\ mistake_proneness = 0
    /\ fatigue_seen = << >>
    /\ attention_seen = << >>
    /\ mistake = << >>

\* get_current_fatigue(), in hundredths.
GetCurrentFatigue ==
    /\ fatigue_seen' = LastTwo(fatigue_seen, CurrentFatigue)
    /\ UNCHANGED <<typing_style, mistake_proneness, attention_seen, mistake>>
    /\ UNCHANGED sessionFrame

\* get_attention_level(), in twenty-thousandths.
GetAttentionLevel ==
    /\ attention_seen' = LastTwo(attention_seen, AttentionLevel)
    /\ UNCHANGED <<typing_style, mistake_proneness, fatigue_seen, mistake>>
    /\ UNCHANGED sessionFrame

SessionNext ==
    \/ TimePasses
    \/ GetCurrentFatigue
    \/ GetAttentionLevel

\* fatigue_factor = 1 + fatigue * 2, in tenths (fatigue is a multiple of
\* 0.05, so the division is exact).
MistakeFatigueFactor == (100 + 2 * CurrentFatigue) \div 10

\* attention_factor = 1.5 - attention * 0.5, in eight-hundredths (the
\* attention is a multiple of 50 twenty-thousandths, so the division is
\* exact).
MistakeAttentionFactor == (3 * 20000 - AttentionLevel) \div 50

\* final_probability as a whole number of 1/MistakeScale: the profile's
\* mistake_proneness (hundredths) * difficulty_factor (tenths) * fatigue
\* factor (tenths) * attention factor (eight-hundredths) * style factor
\* (tenths).
MistakeScale == 100 * 10 * 10 * 800 * 10

\* The probability with the difficulty added to the base instead of
\* multiplying it.
FinalProbability_Additive(difficulty_factor) ==
    (mistake_proneness + difficulty_factor) * MistakeFatigueFactor
        * MistakeAttentionFactor * TypingStyleMistakeFactor(typing_style)

FinalProbability(difficulty_factor) ==
    mistake_proneness * difficulty_factor * MistakeFatigueFactor
        * MistakeAttentionFactor * TypingStyleMistakeFactor(typing_style)

\* The difficulty factors callers pass, in tenths: 0, the default 1.0, 3.0.
DifficultyFactors == {0, 10, 30}

\* The draws of random.random() in [0, 1), in hundredths, around the cap.
MistakeDraws == {0, 19, 20, 99}

\* random.random() < min(0.2, final_probability); a draw of 0.2 or more is
\* never below the minimum.
ShouldMakeTypingMistake ==
    /\ \E difficulty_factor \in DifficultyFactors, r \in MistakeDraws :
         mistake' = <<[difficulty |-> difficulty_factor,
                       draw |-> r,
                       result |-> IF r >= 20 THEN FALSE
                                  ELSE r * MistakeScale
                                         < FinalProbability(difficulty_factor)]>>
    /\ UNCHANGED <<typing_style, mistake_proneness, fatigue_seen,
                   attention_seen>>
    /\ UNCHANGED sessionFrame

MistakeNext ==
    \/ TimePasses
    \/ ShouldMakeTypingMistake

\* ========================================== CoordinateHelper: margins ===
\* get_safe_click_area on the rectangle of the caller's region, and the
\* target point click_in_area computes before it calls click_at_coordinates
\* (the click itself is part of the MouseController below).

\* apply_margin_to_area: each axis shrunk by the margin at both ends, an
\* axis whose shrunk range is empty or a single point left as it was.
ApplyMarginToAxis(r, margin) ==
    IF r[1] + margin >= r[2] - margin THEN r ELSE <<r[1] + margin, r[2] - margin>>

ApplyMarginToArea(xr, yr, margin) ==
    <<ApplyMarginToAxis(xr, margin), ApplyMarginToAxis(yr, margin)>>

\* get_safe_click_area: the rectangle built from the shrunk corners (and
\* so ordered by __post_init__), the original if that has no width or no
\* height.
SafeClickArea(rect, safety_margin) ==
    LET safe_rect == Rectangle(rect.x1 + safety_margin, rect.y1 + safety_margin,
                               rect.x2 - safety_margin, rect.y2 - safety_margin)
    IN  IF Width(safe_rect) <= 0 \/ Height(safe_rect) <= 0
        THEN rect
        ELSE safe_rect

\* The margins callers pass: none, narrower and wider than the regions.
Margins == {0, 1, 2, MaxMargin}

MarginInit ==
    /\ safe_area = << >>
    /\ adjusted = << >>
    /\ area_target = << >>

MarginIdle ==
    /\ safe_margin = 0
    /\ MarginInit

\* get_safe_click_area(rect, safe_margin) on the caller's rectangle.
GetSafeClickArea ==
    /\ safe_area = << >>
    /\ safe_area' = <<SafeClickArea(RectangleFromRanges(x_range, y_range),
                                    safe_margin)>>
    /\ UNCHANGED <<safe_margin, adjusted, area_target>>
    /\ UNCHANGED marginFrame

\* click_in_area(x_range, y_range, button, safe_margin), lines 142-154: the
\* region shrunk if a margin was asked for, a random point of it chosen.
ClickInAreaTarget ==
    /\ area_target = << >>
    /\ LET ranges == IF safe_margin > 0
                     THEN ApplyMarginToArea(x_range, y_range, safe_margin)
                     ELSE <<x_range, y_range>>
       IN  /\ adjusted' = ranges
           /\ \E p \in RandomPointInArea(ranges[1], ranges[2]) :
                area_target' = <<p>>
    /\ UNCHANGED <<safe_margin, safe_area>>
    /\ UNCHANGED marginFrame

MarginNext ==
    \/ GetSafeClickArea
    \/ ClickInAreaTarget

\* ============================================= action-sequence interpreter ===
\* execute_single_sequence (bookbold_controller_clean.py, bookbold_controller.py)
\* and execute_action_sequence (keywords_search.py): the same loop over the
\* actions of a sequence.  execute_single_action catches what its action
\* raises and returns False, so each action either succeeds or fails.

Interpreters == {"clean", "bookbold", "keywords"}

WaitKeys == {"none", "range", "old"}

\* The action lists of up to MaxActions actions.
RECURSIVE ActionLists(_)
ActionLists(n) ==
    IF n = 0 THEN {<< >>}
    ELSE LET shorter == ActionLists(n - 1)
         IN  shorter \cup {Append(l, w) : l \in {s \in shorter : Len(s) = n - 1},
                                           w \in WaitKeys}

\* validate_sequence of keywords_config: the name is known and the list of
\* actions is not empty; the clean controller only looks the name up; the
\* other controller builds its sequence itself.
SequenceAccepted ==
    CASE interpreter = "clean"    -> known
      [] interpreter = "bookbold" -> TRUE
      [] interpreter = "keywords" -> known /\ Len(actions) > 0

\* The action has a post-action wait: wait_min and wait_max, or for the
\* keyword search the old 'wait' key.
HasWait(action) ==
    \/ action = "range"
    \/ action = "old" /\ interpreter = "keywords"

SequenceInit ==
    /\ spc = "idle"
    /\ step = 0
    /\ executed = << >>
    /\ action_results = << >>
    /\ waits = << >>
    /\ sequence_result = "None"

SequenceIdle ==
    /\ interpreter = "clean"
    /\ known = TRUE
    /\ actions = << >>
    /\ SequenceInit

\* The loop header: the next action is handed to execute_single_action, or
\* the list is exhausted and the sequence returns True.
NextAction(n) ==
    IF n <= Len(actions)
    THEN /\ step' = n
         /\ executed' = Append(executed, n)
         /\ spc' = "action"
         /\ UNCHANGED sequence_result
    ELSE /\ sequence_result' = "True"
         /\ spc' = "done"
         /\ UNCHANGED <<step, executed>>

\* The call: the lookup or validation, then the first action.
ExecuteSingleSequence ==
    /\ spc = "idle"
    /\ IF SequenceAccepted
       THEN NextAction(1)
       ELSE /\ sequence_result' = "False"
            /\ spc' = "done"
            /\ UNCHANGED <<step, executed>>
    /\ UNCHANGED <<interpreter, known, actions, action_results, waits>>
    /\ UNCHANGED sequenceFrame

\* execute_single_action returned True: the post-action wait if the action
\* has one, else the next action.
ActionSucceeds ==
    /\ spc = "action"
    /\ action_results' = Append(action_results, TRUE)
    /\ IF HasWait(actions[step])
       THEN /\ waits' = Append(waits, step)
            /\ spc' = "wait"
            /\ UNCHANGED <<step, executed, sequence_result>>
       ELSE /\ NextAction(step + 1)
            /\ UNCHANGED waits
    /\ UNCHANGED <<interpreter, known, actions>>
    /\ UNCHANGED sequenceFrame

\* The slip of going on to the next action after a failed one.
ActionFails_GoesOn ==
    /\ spc = "action"
    /\ action_results' = Append(action_results, FALSE)
    /\ NextAction(step + 1)
    /\ UNCHANGED <<interpreter, known, actions, waits>>
    /\ UNCHANGED sequenceFrame

\* execute_single_action returned False: the sequence returns False.
ActionFails ==
    /\ spc = "action"
    /\ action_results' = Append(action_results, FALSE)
    /\ sequence_result' = "False"
    /\ spc' = "done"
    /\ UNCHANGED <<interpreter, known, actions, step, executed, waits>>
    /\ UNCHANGED sequenceFrame

\* time.sleep(wait_time) returns: the next action.
WaitEnds ==
    /\ spc = "wait"
    /\ NextAction(step + 1)
    /\ UNCHANGED <<interpreter, known, actions, action_results, waits>>
    /\ UNCHANGED sequenceFrame

SequenceNext ==
    \/ ExecuteSingleSequence
    \/ ActionSucceeds
    \/ ActionFails
    \/ WaitEnds

\* ======================================================== specifications ===

\* The batch executor, configured once and not running.
BatchIdle ==
    /\ start_number = 0
    /\ total_notebooks = 1
    /\ BatchInit

InitBatch ==
    /\ start_number \in 0..MaxStart
    /\ total_notebooks \in 1..MaxTotal
    /\ BatchInit
    /\ RetryIdle
    /\ SmallScreen
    /\ GeoIdle
    /\ DelayIdle
    /\ PathIdle
    /\ MouseIdle
    /\ SessionIdle
    /\ MarginIdle
    /\ SequenceIdle

SpecBatch == InitBatch /\ [][BatchNext]_vars

InitRetry ==
    /\ BatchIdle
    /\ RetryIdle
    /\ SmallScreen
    /\ GeoIdle
    /\ DelayIdle
    /\ PathIdle
    /\ MouseIdle
    /\ SessionIdle
    /\ MarginIdle
    /\ SequenceIdle

SpecRetry == InitRetry /\ [][RetryNext]_vars

InitGeo ==
    /\ BatchIdle
    /\ RetryIdle
    /\ SmallScreen
    /\ x_range \in XCoords \X XCoords
    /\ y_range \in YCoords \X YCoords
    /\ GeoInit
    /\ DelayIdle
    /\ PathIdle
    /\ MouseIdle
    /\ SessionIdle
    /\ MarginIdle
    /\ SequenceIdle

SpecGeo == InitGeo /\ [][GeoNext]_vars

InitDelay ==
    /\ BatchIdle
    /\ RetryIdle
    /\ SmallScreen
    /\ GeoIdle
    /\ activity_level \in ActivityLevels
    /\ fatigue_factor \in {0, 80}
    /\ consistency \in {0, 70, 100}
    /\ attention_span = 80
    /\ min_delay \in DelayValues
    /\ max_delay \in {d \in DelayValues : min_delay <= d}
    /\ DelayInit
    /\ PathIdle
    /\ MouseIdle
    /\ SessionIdle
    /\ MarginIdle
    /\ SequenceIdle

SpecDelay == InitDelay /\ [][DelayNext]_vars

InitPath ==
    /\ BatchIdle
    /\ RetryIdle
    /\ WideScreen
    /\ GeoIdle
    /\ DelayIdle
    /\ path_start \in PathPoints
    /\ path_end \in PathPoints
    /\ human_like \in BOOLEAN
    /\ PathInit
    /\ MouseIdle
    /\ SessionIdle
    /\ MarginIdle
    /\ SequenceIdle

SpecPath == InitPath /\ [][PathNext]_vars

InitMouse ==
    /\ BatchIdle
    /\ RetryIdle
    /\ WideScreen
    /\ GeoIdle
    /\ DelayIdle
    /\ PathIdle
    /\ MouseInit
    /\ SessionIdle
    /\ MarginIdle
    /\ SequenceIdle

SpecMouse == InitMouse /\ [][MouseNext]_vars

InitSession ==
    /\ BatchIdle
    /\ RetryIdle
    /\ SmallScreen
    /\ GeoIdle
    /\ activity_level = "normal"
    /\ fatigue_factor \in {0, 80}
    /\ consistency = 70
    /\ attention_span \in {10, 80}
    /\ min_delay = 0
    /\ max_delay = 0
    /\ DelayInit
    /\ PathIdle
    /\ MouseIdle
    /\ SessionIdle
    /\ MarginIdle
    /\ SequenceIdle

SpecSession == InitSession /\ [][SessionNext]_vars

InitMistake ==
    /\ BatchIdle
    /\ RetryIdle
    /\ SmallScreen
    /\ GeoIdle
    /\ activity_level = "normal"
    /\ fatigue_factor \in {0, 80}
    /\ consistency = 70
    /\ attention_span \in {10, 80}
    /\ min_delay = 0
    /\ max_delay = 0
    /\ DelayInit
    /\ PathIdle
    /\ MouseIdle
    /\ typing_style \in TypingStyles
    /\ mistake_proneness \in {0, 10, 100}
    /\ fatigue_seen = << >>
    /\ attention_seen = << >>
    /\ mistake = << >>
    /\ MarginIdle
    /\ SequenceIdle

SpecMistake == InitMistake /\ [][MistakeNext]_vars

InitMargin ==
    /\ BatchIdle
    /\ RetryIdle
    /\ SmallScreen
    /\ x_range \in XCoords \X XCoords
    /\ y_range \in YCoords \X YCoords
    /\ GeoInit
    /\ DelayIdle
    /\ PathIdle
    /\ MouseIdle
    /\ SessionIdle
    /\ safe_margin \in Margins
    /\ MarginInit
    /\ SequenceIdle

SpecMargin == InitMargin /\ [][MarginNext]_vars

InitSequence ==
    /\ BatchIdle
    /\ RetryIdle
    /\ SmallScreen
    /\ GeoIdle
    /\ DelayIdle
    /\ PathIdle
    /\ MouseIdle
    /\ SessionIdle
    /\ MarginIdle
    /\ interpreter \in Interpreters
    /\ known \in IF interpreter = "bookbold" THEN {TRUE} ELSE BOOLEAN
    /\ actions \in ActionLists(MaxActions)
    /\ SequenceInit

SpecSequence == InitSequence /\ [][SequenceNext]_vars

\* ================================================================ claims ===

\* The one summary a finished run printed.
Summary == printed[1]

\* What the executor reports as unprocessed: configured end minus actual end.
Remaining ==
    ExpectedEnd(start_number, total_notebooks) - ActualEnd(current_notebook_number)

BatchReturned == bpc \in {"done", "aborted"}

\* C1: between units and in the final summary, successful + failed +
\* remaining = total configured units, and successful + failed <= total.
C1_CountsAddUp ==
    /\ bpc \in {"unit", "pause", "done"} =>
          /\ successful_notebooks + failed_notebooks + Remaining = total_notebooks
          /\ successful_notebooks + failed_notebooks <= total_notebooks
    /\ bpc = "done" =>
          Summary.successful + Summary.failed + Summary.remaining = total_notebooks

\* C2: when the operator declines after the k-th unit fails, the summary
\* reports actual end = start + k - 1 and N - k units remaining.
C2_DeclineSummary ==
    (bpc = "done" /\ declined) =>
        LET k == Len(attempted)
        IN  /\ Summary.actual_end = start_number + k - 1
            /\ ExecutionStats.end_number_actual = start_number + k - 1
            /\ Summary.remaining = total_notebooks - k

\* C3: when all N units report success the batch returns True and the summary
\* shows successful = N, failed = 0, success rate 100.0, actual end =
\* start + N - 1 and no early-termination record.
C3_AllSucceed ==
    (Len(results) = total_notebooks /\ \A j \in 1..Len(results) : results[j] = "ok") =>
        /\ bpc = "done"
        /\ batch_result = "True"
        /\ Len(printed) = 1
        /\ Summary.successful = total_notebooks
        /\ Summary.failed = 0
        /\ Summary.success_rate = 1000
        /\ Summary.actual_end = start_number + total_notebooks - 1
        /\ ~Summary.early
        /\ ExecutionStats.successful_notebooks = total_notebooks
        /\ ExecutionStats.failed_notebooks = 0
        /\ ExecutionStats.success_rate = 1000
        /\ ExecutionStats.end_number_actual = start_number + total_notebooks - 1

C3_Witness ==
    /\ bpc = "done"
    /\ total_notebooks >= 3
    /\ successful_notebooks = total_notebooks

\* C4: once the operator has declined, the run is over with its summary
\* printed, and the unit callable is not invoked again in that run.
C4_NoUnitAfterDecline ==
    [][ /\ declined' => (bpc' = "done" /\ Len(printed') = 1)
        /\ (declined /\ run' = run) => (attempted' = attempted /\ results' = results)
      ]_vars

C4_Witness ==
    /\ declined
    /\ bpc = "done"
    /\ Len(attempted) < total_notebooks

\* C5: input() is called once for each unit that reported failure, in order,
\* and for no other unit; the number of calls is the failed count.
C5_OneQueryPerFailure ==
    /\ Len(asked) = failed_notebooks
    /\ Len(asked) = Cardinality({j \in 1..Len(results) : results[j] = "fail"})
    /\ \A k \in 1..Len(asked) :
          /\ asked[k] + 1 \in 1..Len(results)
          /\ results[asked[k] + 1] = "fail"
          /\ \A m \in 1..(k - 1) : asked[m] < asked[k]

C5_Witness ==
    /\ BatchReturned
    /\ Len(asked) >= 2
    /\ successful_notebooks >= 1

C7_AlwaysSummary ==
    BatchReturned => (execution_end_time = run /\ Len(printed) = 1)

\* C7 as amended: a run that completed or was declined recorded its end time
\* and printed the summary once; a run aborted by an exception returned False
\* without recording an end time or printing a summary.
C7_SummaryUnlessAborted ==
    /\ bpc = "done" =>
          /\ execution_end_time = run
          /\ Len(printed) = 1
          /\ batch_result \in {"True", "False"}
    /\ bpc = "aborted" =>
          /\ execution_end_time # run
          /\ printed = << >>
          /\ batch_result = "False"
    /\ bpc \in {"unit", "ask", "pause"} =>
          /\ printed = << >>
          /\ batch_result = "None"

C7_Witness ==
    /\ bpc = "done"
    /\ declined
    /\ successful_notebooks >= 1
    /\ Len(printed) = 1

\* C8: the j-th invocation of the unit callable happens at number
\* start + j - 1, so numbers are attempted in increasing order and none twice;
\* while a unit runs, and after a decline or an abort, current_notebook_number
\* is at most start + total - 1.
C8_IncreasingOrder ==
    /\ \A j \in 1..Len(attempted) : attempted[j] = start_number + j - 1
    /\ Len(attempted) <= total_notebooks
    /\ bpc \in {"unit", "ask"} =>
          /\ current_notebook_number = start_number + i
          /\ current_notebook_number = attempted[Len(attempted)]
          /\ current_notebook_number <= start_number + total_notebooks - 1
    /\ (declined \/ raised) =>
          current_notebook_number <= start_number + total_notebooks - 1

C8_Witness ==
    /\ bpc = "unit"
    /\ i >= 2
    /\ failed_notebooks >= 1
    /\ successful_notebooks >= 1

\* C9: with max_retries = n >= 1 and every click_in_area call returning False,
\* click_with_retry makes n attempts, returns False, and has slept n - 1
\* delays of 1.0 + 0.5 k seconds, k = 0..n-2, none after the last attempt.
C9_SleepsOnlyBetween ==
    ( /\ rpc = "returned"
      /\ max_retries >= 1
      /\ \A j \in 1..Len(outcomes) : outcomes[j] = "fail" ) =>
        /\ Len(outcomes) = max_retries
        /\ retry_result = "False"
        /\ sleeps = [k \in 1..(max_retries - 1) |-> 10 + 5 * (k - 1)]

\* C10: a successful click_in_area call is the last one and makes
\* click_with_retry return True; it returns False only after max_retries
\* calls none of which succeeded.
C10_StopsAtFirstSuccess ==
    /\ \A j \in 1..Len(outcomes) :
          outcomes[j] = "ok" =>
              (j = Len(outcomes) /\ rpc = "returned" /\ retry_result = "True")
    /\ retry_result = "True" =>
          (Len(outcomes) >= 1 /\ outcomes[Len(outcomes)] = "ok")
    /\ retry_result = "False" =>
          /\ Len(outcomes) = max_retries
          /\ \A j \in 1..Len(outcomes) : outcomes[j] # "ok"

C10_Witness ==
    /\ retry_result = "True"
    /\ Len(outcomes) >= 2
    /\ Len(outcomes) < max_retries

\* The point the last sampling call returned.
SampledPoint == sampled[1]

InPlane(p) ==
    0 <= p.x /\ p.x <= screen_width /\ 0 <= p.y /\ p.y <= screen_height

\* The caller's region, corners ordered.
Region == RectangleFromRanges(x_range, y_range)

C17_SampleInRegion ==
    (sampled # << >> /\ Width(Region) > 0 /\ Height(Region) > 0) =>
        Contains(Region, SampledPoint)

C17_Witness ==
    /\ sampled_by = "rectangle"
    /\ x_range[1] > x_range[2]
    /\ y_range[1] > y_range[2]
    /\ SampledPoint.x = Region.x2
    /\ SampledPoint.y = Region.y1

\* C20: for every profile, session age and 0 <= min <= max, the delay
\* get_click_delay returns lies between min and twice max, whatever was drawn.
C20_DelayWithinBounds ==
    delay # << >> =>
        /\ min_delay * DelayScale <= delay[1]
        /\ delay[1] <= 2 * max_delay * DelayScale

\* A tired, fatigued, inconsistent profile whose delay was cut at twice max.
C20_Witness ==
    /\ delay # << >>
    /\ activity_level = "tired"
    /\ CurrentFatigue = 100
    /\ max_delay > 0
    /\ delay[1] = 2 * max_delay * DelayScale

PathFirst == path[1]

PathLast == path[Len(path)]

\* |a - b| <= d
Within(a, b, d) == a - b <= d /\ b - a <= d

Near(p, q, d) == Within(p.x, q.x, d) /\ Within(p.y, q.y, d)

\* C18: for start and end inside the plane the path returned is non-empty;
\* its first point is start and its last point is end when human_like is
\* false, and they are within 2 px of start and end on each axis when it is
\* true, whatever control point and jitter were drawn.
C18_PathEndpoints ==
    (path_returned /\ InPlane(path_start) /\ InPlane(path_end)) =>
        /\ Len(path) > 0
        /\ IF human_like
           THEN Near(PathFirst, path_start, 2) /\ Near(PathLast, path_end, 2)
           ELSE PathFirst = path_start /\ PathLast = path_end

\* A long, curved, jittered path whose ends are off by the full 2 px.
C18_Witness ==
    /\ path_returned
    /\ human_like
    /\ path_start = Point(30, 20)
    /\ path_end = Point(WideW, WideH)
    /\ Len(path) > 5
    /\ PathFirst = Point(28, 22)
    /\ PathLast = Point(WideW - 2, WideH)

\* C19 as stated: a trajectory between coincident points has one or two
\* points.
C19_CoincidentOneOrTwo ==
    (path_returned /\ path_start = path_end) => Len(path) \in {1, 2}

\* C19 as amended: a trajectory between coincident points has exactly five
\* points, each the common point clamped to the plane, moved by at most 2 px
\* on each axis when human_like is true.
C19_CoincidentFivePoints ==
    (path_returned /\ path_start = path_end) =>
        /\ Len(path) = 5
        /\ \A k \in 1..Len(path) :
             Near(path[k], ClampCoordinates(path_start.x, path_start.y, 0),
                  IF human_like THEN 2 ELSE 0)

C19_Witness ==
    /\ path_returned
    /\ ~human_like
    /\ path_start = Point(30, 20)
    /\ path_end = path_start
    /\ path = <<path_start, path_start, path_start, path_start, path_start>>

\* ---- MouseController

\* The number of entries of a trace that are in a set of events.
Count(tr, events) == Cardinality({k \in 1..Len(tr) : tr[k] \in events})

ApproachEvents == {"natural_ok", "natural_fail", "direct_ok", "direct_fail"}

PreClickEvents == {"preclick", "preclick_raise"}

ClickEvents == {"click_ok", "click_fail"}

\* The phase of click_at_coordinates an event belongs to: approach 1,
\* pre-click 2, click 3, post-click 4.
PhaseOf(e) ==
    IF e \in ApproachEvents THEN 1
    ELSE IF e \in PreClickEvents THEN 2
    ELSE IF e \in ClickEvents THEN 3
    ELSE 4

InPhaseOrder(tr) ==
    \A a \in 1..Len(tr) : \A b \in 1..Len(tr) :
        a < b => PhaseOf(tr[a]) <= PhaseOf(tr[b])

\* click_in_area was called with a target that passes validation.
ValidClick == op = "click" /\ ValidateCoordinates(target.x, target.y, ClickMargin)

\* C11 as stated: a click at a valid target goes through approach, pre-click,
\* exactly one backend click and post-click in that order, and the controller
\* is idle when it returns.
C11_FullSequence ==
    ValidClick =>
        /\ InPhaseOrder(trace)
        /\ Count(trace, ClickEvents) <= 1
        /\ cpc = "idle" =>
             /\ Count(trace, ApproachEvents) >= 1
             /\ Count(trace, {"preclick"}) = 1
             /\ Count(trace, ClickEvents) = 1
             /\ Count(trace, {"postclick"}) = 1
             /\ ~is_dragging

\* C11 as amended: the phases keep their order and there is at most one
\* backend click; a click that returns has gone through approach, pre-click,
\* exactly one backend click and post-click, unless the backend raised during
\* pre-click: then it returns failure with no backend click and no post-click.
\* The controller is idle, and not dragging, when it returns.
C11_SequenceUnlessPreClickFails ==
    ValidClick =>
        /\ InPhaseOrder(trace)
        /\ Count(trace, ClickEvents) <= 1
        /\ cpc = "idle" =>
             /\ Count(trace, ApproachEvents) >= 1
             /\ Count(trace, PreClickEvents) = 1
             /\ ~is_dragging
             /\ IF Count(trace, {"preclick_raise"}) = 1
                THEN /\ op_result = "False"
                     /\ Count(trace, ClickEvents) = 0
                     /\ Count(trace, {"postclick"}) = 0
                ELSE /\ Count(trace, ClickEvents) = 1
                     /\ Count(trace, {"postclick"}) = 1
                     /\ trace[Len(trace)] = "postclick"

C11_Witness ==
    /\ ValidClick
    /\ cpc = "idle"
    /\ op_result = "True"
    /\ trace = <<"natural_ok", "preclick", "click_ok", "postclick">>

\* C12: when the natural approach of a click fails, exactly one direct move is
\* attempted and the click goes on to pre-click and, unless the backend raises
\* there, to the backend click; the click returns failure only if the backend
\* raised in pre-click or at the click itself, never for the failed movement.
C12_FallbackThenClick ==
    (op = "click" /\ Count(trace, {"natural_fail"}) > 0) =>
        /\ Count(trace, {"natural_fail"}) = 1
        /\ Count(trace, {"direct_ok", "direct_fail"}) =
               (IF cpc = "fallback" THEN 0 ELSE 1)
        /\ cpc = "idle" =>
             /\ Count(trace, PreClickEvents) = 1
             /\ Count(trace, {"preclick_raise"}) = 0 =>
                    Count(trace, ClickEvents) = 1
             /\ op_result = "False" =>
                    Count(trace, {"preclick_raise", "click_fail"}) = 1

\* Both movements failed and the click still succeeded.
C12_Witness ==
    /\ op = "click"
    /\ cpc = "idle"
    /\ op_result = "True"
    /\ trace = <<"natural_fail", "direct_fail", "preclick", "click_ok",
                 "postclick">>

\* C13: is_dragging is true only while the backend drag call of a drag is in
\* progress; it is false whenever the controller is between operations,
\* however the drag ended.
C13_DraggingOnlyDuringBackendDrag ==
    /\ is_dragging => (op = "drag" /\ cpc = "dragging")
    /\ cpc = "idle" => ~is_dragging

\* A drag whose backend call failed has returned.
C13_Witness ==
    /\ op = "drag"
    /\ cpc = "idle"
    /\ op_result = "False"
    /\ trace = <<"natural_ok", "drag_fail">>
    /\ ~is_dragging

\* C14: no error raised by the backend leaves a public operation; an
\* operation that has returned has returned True or False.
C14_NoBackendErrorEscapes ==
    /\ op_result \in {"None", "True", "False"}
    /\ (cpc = "idle" /\ op # "none") => op_result \in {"True", "False"}

\* The backend raised in _pre_click_behavior, which has no handler.
C14_Witness ==
    /\ op = "click"
    /\ cpc = "idle"
    /\ op_result = "False"
    /\ trace = <<"natural_ok", "preclick_raise">>

FailureEvents ==
    {"natural_fail", "direct_fail", "preclick_raise", "click_fail"}

\* C16 as stated: a target outside the plane never by itself makes a click or
\* a move fail; it is clamped into the plane and the operation proceeds.
C16_OutOfPlaneNeverFatal ==
    (op \in {"click", "move"} /\ cpc = "idle" /\ ~InPlane(requested)) =>
        /\ InPlane(target)
        /\ trace # << >>
        /\ op_result = "False" => Count(trace, FailureEvents) > 0

\* C16 as amended: a move to a target outside the plane is clamped into the
\* plane, proceeds, and fails only if the movement itself fails; a click at a
\* target outside the plane, or within 5 px of its edge, is not clamped: it
\* returns failure without any movement or click.
C16_MoveClampsClickRejects ==
    /\ (op = "move" /\ cpc = "idle" /\ ~InPlane(requested)) =>
           /\ InPlane(target)
           /\ target = ClampCoordinates(requested.x, requested.y, 0)
           /\ Len(trace) = 1
           /\ op_result = "False" <=> trace[1] \in {"natural_fail", "direct_fail"}
    /\ (op = "click" /\ cpc = "idle"
          /\ ~ValidateCoordinates(requested.x, requested.y, ClickMargin)) =>
           /\ op_result = "False"
           /\ trace = << >>
           /\ target = requested

\* A move asked to go beyond the right edge ended on the edge.
C16_Witness ==
    /\ op = "move"
    /\ cpc = "idle"
    /\ requested = Point(WideW + Beyond, 50)
    /\ target = Point(WideW, 50)
    /\ op_result = "True"
    /\ current_position = Point(WideW, 50)

\* C21: for a fixed profile, of two consecutive calls the later one (made at
\* an elapsed session time that is no smaller) returns a fatigue that is no
\* smaller and an attention that is no larger.
C21_FatigueUpAttentionDown ==
    /\ Len(fatigue_seen) = 2 => fatigue_seen[1] <= fatigue_seen[2]
    /\ Len(attention_seen) = 2 => attention_seen[1] >= attention_seen[2]

\* Two calls of each, with time passing in between: the fatigue rose and
\* the attention fell.
C21_Witness ==
    /\ Len(fatigue_seen) = 2
    /\ fatigue_seen[1] < fatigue_seen[2]
    /\ Len(attention_seen) = 2
    /\ attention_seen[1] > attention_seen[2]

\* C22: with mistake_proneness 0, should_make_typing_mistake returns false
\* for every draw, difficulty, fatigue, attention, session age and typing
\* style.
C22_NoMistakeWithoutProneness ==
    (mistake # << >> /\ mistake_proneness = 0) => ~mistake[1].result

\* The most mistake-prone situation but for the proneness: a fatigued,
\* inattentive hunt-and-peck typist late in the session, the highest
\* difficulty and the lowest draw.
C22_Witness ==
    /\ mistake # << >>
    /\ mistake_proneness = 0
    /\ typing_style = "hunt_and_peck"
    /\ CurrentFatigue = 100
    /\ AttentionLevel = 10 * 200
    /\ mistake[1].draw = 0
    /\ mistake[1].difficulty > 10
    /\ ~mistake[1].result

\* C25 as stated: the time part of the fatigue is 0 at the start and 0.3 at
\* every elapsed time of one hour or more, the fatigue is at most 1.0 and
\* the attention at least 0.1.
C25_CapWithinFirstHour ==
    /\ session_half_hours = 0 => TimeFatigue = 0
    /\ session_half_hours >= 2 => TimeFatigue = 30
    /\ \A k \in 1..Len(fatigue_seen) : fatigue_seen[k] <= 100
    /\ \A k \in 1..Len(attention_seen) : attention_seen[k] >= 10 * 200

\* C25 amended: the time part of the fatigue is a tenth per hour, 0 at the
\* start and at its cap of 0.3 exactly from three hours on; every fatigue
\* returned is at most 1.0 and every attention returned at least 0.1.
C25_CapAfterThreeHours ==
    /\ session_half_hours = 0 => TimeFatigue = 0
    /\ TimeFatigue = 30 <=> session_half_hours >= 6
    /\ \A k \in 1..Len(fatigue_seen) : fatigue_seen[k] <= 100
    /\ \A k \in 1..Len(attention_seen) : attention_seen[k] >= 10 * 200

\* Past three hours a fatigued, inattentive profile was read at the fatigue
\* cap and at the attention floor.
C25_Witness ==
    /\ session_half_hours >= 6
    /\ TimeFatigue = 30
    /\ fatigue_factor + TimeFatigue > 100
    /\ fatigue_seen # << >>
    /\ fatigue_seen[Len(fatigue_seen)] = 100
    /\ attention_seen # << >>
    /\ attention_seen[Len(attention_seen)] = 10 * 200
    /\ attention_span * (200 - CurrentFatigue) < 10 * 200

\* C23: the k-th pause of a run follows iteration k - 1, which is not the
\* last configured one and ended in a success or in a failure the operator
\* chose to continue after, and is slept with the current-number counter
\* already incremented; every such iteration is followed by a pause, the
\* last configured unit and a decline are not, and a run that attempted all
\* N units slept exactly N - 1 pauses.
C23_PauseBetweenUnits ==
    run > 0 =>
        /\ \A k \in 1..Len(pauses) :
               /\ pauses[k] = <<k - 1, start_number + k>>
               /\ k - 1 < total_notebooks - 1
               /\ results[k] \in {"ok", "fail"}
        /\ Len(pauses) = IF bpc = "pause" THEN i + 1 ELSE i
        /\ bpc = "pause" => ~declined
        /\ bpc = "done" => Len(pauses) = Len(results) - 1
        /\ (bpc = "done" /\ Len(results) = total_notebooks)
               => Len(pauses) = total_notebooks - 1

\* A run of at least three units, one of which failed and was continued,
\* attempted them all and slept one pause fewer than units.
C23_Witness ==
    /\ bpc = "done"
    /\ ~declined
    /\ total_notebooks >= 3
    /\ Len(results) = total_notebooks
    /\ results[2] = "fail"
    /\ Len(pauses) = total_notebooks - 1
    /\ pauses[2] = <<1, start_number + 2>>

\* The rectangle returned for the caller's region, the target chosen in it.
SafeArea == safe_area[1]

AreaTarget == area_target[1]

\* Lower and upper end of a range given in either order.
Lo(r) == Min(r[1], r[2])

Hi(r) == Max(r[1], r[2])

\* C24: get_safe_click_area returns the caller's rectangle unchanged when
\* the margin leaves no area of positive width and height, and for every
\* rectangle and margin >= 0 the rectangle returned is contained in the
\* caller's.
C24_SafeAreaInsideOriginal ==
    safe_area # << >> =>
        /\ (\/ Width(Region) - 2 * safe_margin <= 0
            \/ Height(Region) - 2 * safe_margin <= 0)
               => SafeArea = Region
        /\ Region.x1 <= SafeArea.x1 /\ SafeArea.x2 <= Region.x2
        /\ Region.y1 <= SafeArea.y1 /\ SafeArea.y2 <= Region.y2

\* C30: the target click_in_area chooses lies in the caller's region; with
\* safe_margin > 0 it is at least safe_margin away from both edges of every
\* axis wider than twice the margin, whichever way round the axis was given;
\* an axis no wider than that is sampled over its original range.
C30_TargetInsideShrunkRegion ==
    area_target # << >> =>
        /\ Contains(Region, AreaTarget)
        /\ (safe_margin > 0 /\ Hi(x_range) - Lo(x_range) > 2 * safe_margin)
               => /\ Lo(x_range) + safe_margin <= AreaTarget.x
                  /\ AreaTarget.x <= Hi(x_range) - safe_margin
        /\ (safe_margin > 0 /\ Hi(y_range) - Lo(y_range) > 2 * safe_margin)
               => /\ Lo(y_range) + safe_margin <= AreaTarget.y
                  /\ AreaTarget.y <= Hi(y_range) - safe_margin
        /\ (safe_margin > 0 /\ Hi(x_range) - Lo(x_range) <= 2 * safe_margin)
               => adjusted[1] = x_range
        /\ (safe_margin > 0 /\ Hi(y_range) - Lo(y_range) <= 2 * safe_margin)
               => adjusted[2] = y_range

\* The actions were executed in list order, nothing was executed after a
\* failed action, and no wait was slept after a failed action.
InListOrderUntilFailure ==
    /\ Len(executed) <= Len(actions)
    /\ \A k \in 1..Len(executed) : executed[k] = k
    /\ Len(action_results) \in {Len(executed), Len(executed) - 1}
    /\ \A k \in 1..Len(action_results) :
          ~action_results[k] => (k = Len(executed) /\ spc = "done")
    /\ \A k \in 1..Len(waits) :
          /\ waits[k] <= Len(action_results)
          /\ action_results[waits[k]]

EveryActionSucceeded ==
    /\ Len(action_results) = Len(actions)
    /\ \A k \in 1..Len(action_results) : action_results[k]

\* C26 as stated: list order, stop at the first failure, no wait after it;
\* an unknown name fails without executing anything, and a known sequence
\* returns success exactly if every one of its actions succeeded.
C26_SuccessIffAllSucceed ==
    /\ InListOrderUntilFailure
    /\ (spc = "done" /\ ~known)
          => (sequence_result = "False" /\ executed = << >>)
    /\ (spc = "done" /\ known)
          => (sequence_result = "True" <=> EveryActionSucceeded)

\* C26 amended: as stated, but a sequence the interpreter does not accept
\* (for the keyword search a known one without actions, too) fails without
\* executing anything, and an accepted sequence returns success exactly if
\* every one of its actions succeeded.
C26_SuccessIffAcceptedAndAllSucceed ==
    /\ InListOrderUntilFailure
    /\ (spc = "done" /\ ~SequenceAccepted)
          => (sequence_result = "False" /\ executed = << >>)
    /\ (spc = "done" /\ SequenceAccepted)
          => (sequence_result = "True" <=> EveryActionSucceeded)
    /\ ~known => ~SequenceAccepted

\* A sequence of three actions with waits whose second action failed: one
\* wait after the first action, none after the second, the third not
\* executed.
C26_Witness ==
    /\ spc = "done"
    /\ sequence_result = "False"
    /\ Len(actions) >= 3
    /\ HasWait(actions[2])
    /\ executed = <<1, 2>>
    /\ action_results = <<TRUE, FALSE>>
    /\ waits = <<1>>

\* The fields of MouseState.
MouseState ==
    <<current_position, total_clicks, total_moves, last_click_time,
      last_move_time, is_dragging>>

\* click_at_coordinates is at work on a target that passed validation.
ClickPhases == {"approach", "fallback", "preclick", "execute", "postclick"}

\* A step in which click_at_coordinates is called.
ClickCalled ==
    \/ ClickInArea
    \/ DoubleClickAtCoordinates
    \/ ClickWithRetry
    \/ RetrySleepEnds

\* C27: a click whose target fails validation with the 5 px margin returns
\* failure at once, with no backend primitive invoked and MouseState as it
\* was; a click that passed validation returns either through its handler
\* after an exception, total_clicks as it was, or normally with total_clicks
\* one higher, whether the backend click succeeded or not; total_clicks
\* changes in no other step, and neither counter ever decreases.
C27_InvalidClickLeavesState ==
    [][/\ (ClickCalled /\ ~ValidateCoordinates(target'.x, target'.y, ClickMargin))
            => /\ UNCHANGED MouseState
               /\ trace' = << >>
               /\ cpc' \notin ClickPhases
               /\ op' \in {"click", "double"} => op_result' = "False"
       /\ (cpc \in ClickPhases /\ cpc' \notin ClickPhases)
            => \/ /\ cpc = "postclick"
                  /\ total_clicks' = total_clicks + 1
                  /\ trace'[Len(trace') - 1] \in ClickEvents
               \/ /\ cpc = "preclick"
                  /\ trace'[Len(trace')] = "preclick_raise"
                  /\ UNCHANGED total_clicks
       /\ total_clicks' # total_clicks => cpc = "postclick"
       /\ total_clicks' >= total_clicks
       /\ total_moves' >= total_moves
      ]_vars

\* click_with_retry whose last attempt was at a target within 5 px of the
\* edge and was rejected untouched, after an attempt that was counted
\* although its backend click had failed.
C27_Witness ==
    /\ op = "retry"
    /\ cpc = "idle"
    /\ op_result = "False"
    /\ ~ValidateCoordinates(target.x, target.y, ClickMargin)
    /\ InPlane(target)
    /\ trace = << >>
    /\ total_clicks = 1
    /\ last_click_time > 0

\* The sum of the magnitudes of the chunks.
RECURSIVE SumAbs(_)
SumAbs(chunks) ==
    IF chunks = << >> THEN 0
    ELSE (IF Head(chunks) < 0 THEN -Head(chunks) ELSE Head(chunks))
         + SumAbs(Tail(chunks))

Abs(n) == IF n < 0 THEN -n ELSE n

\* C28: natural_scroll_pattern(total) hands the backend chunks of magnitude
\* 1 to 5 in the direction of total's sign, at most |total| of them, which
\* add up to |total| when it returns; a pause follows every chunk but the
\* last; and it returns success only if every backend scroll succeeded.
C28_ChunksAndSuccess ==
    op = "nscroll" =>
        /\ \A k \in 1..Len(scrolled) :
              /\ Abs(scrolled[k]) \in 1..5
              /\ (scrolled[k] > 0) = (scroll_total > 0)
        /\ Len(scrolled) <= Abs(scroll_total)
        /\ SumAbs(scrolled) + scroll_remaining = Abs(scroll_total)
        /\ cpc = "idle" => scroll_remaining = 0
        /\ \A k \in 1..Len(trace) :
              trace[k] = "scroll_pause"
                  <=> (k % 2 = 0 /\ trace[k - 1] # "scroll_pause")
        /\ Count(trace, {"scroll_pause"}) =
              IF cpc = "idle" /\ scrolled # << >>
              THEN Len(scrolled) - 1 ELSE Len(scrolled)
        /\ (cpc = "idle" /\ op_result = "True")
              => Count(trace, {"scroll_fail"}) = 0

\* C29: whatever operations were called with whatever coordinates, the
\* position recorded in MouseState lies inside the plane.
C29_PositionInPlane == InPlane(current_position)

====
